---- MODULE Spec2Model ----
(***************************************************************************)
(* Model of the request orchestration pipeline of the Ashley AI python     *)
(* service: ChatOrchestrator.stream_reply (app/orchestrator.py), the       *)
(* moderation controller (app/moderation.py), the model router             *)
(* (app/router.py) and the token budgeter (tools/tokenizer.py).            *)
(***************************************************************************)
EXTENDS Integers, Sequences, FiniteSets, TLC

(***************************************************************************)
(* Bounds of the model (not program constants).                            *)
(***************************************************************************)
MaxTurns == 1
MaxChunks == 2
MaxMsgs == 2
MaxContentLen == 3
MaxBudget == 9
MaxReported == 2
MaxSessionTurns == 2
MaxSessions == 2
MaxPromotionTurns == 4

(***************************************************************************)
(* Program constants.                                                      *)
(***************************************************************************)
PerMessageOverhead == 3
ReplyPriming == 3
SearchToolChars == 280
AutoSearchChars == 220
LongInputChars == 200
LongHistoryCount == 20
PromoteEvery == 8

None == "None"
ALLOW == "allow"
FLAG == "flag"
BLOCK == "block"
ModerationAction == {ALLOW, FLAG, BLOCK}

VARIABLES
    \* ---- ChatState (app/state.py) and the stores the orchestrator writes
    pc,                 \* position of the current turn in stream_reply / _generator
    turn,               \* number of the turn being processed (0 before the first)
    messages,           \* state.messages
    attachments,        \* state.attachments
    last_error,         \* state.last_error
    active_model,       \* state.active_model
    model_override,     \* state.model_override
    memory_enabled,     \* state.memory_enabled
    moderation_enabled, \* state.moderation_enabled
    token_usage,        \* state.token_usage
    session_log,        \* rows of session_messages (SessionStore.append_message)
    session_usage,      \* row of session_usage (SessionStore.update_usage)
    short_term,         \* rows of memory_short
    long_term,          \* long-term memory entries
    ledger,             \* UsageTracker monthly aggregate
    moderation_log,     \* entries written by log_event
    \* ---- locals of the turn in flight
    user_text,          \* the turn's text (abstracted to the features the code tests)
    moderation_result,  \* ModerationResult of the turn
    model_choice,       \* ModelChoice of the turn
    context_text,       \* sections placed in the context block
    prompt,             \* messages passed to inference
    aggregated,         \* fragments collected by _generator
    yielded,            \* fragments yielded to the caller
    new_attachments,    \* the attachments argument of the turn
    sync_result,        \* StreamResult of complete_response held across the yield
    events,             \* collaborator calls and writes of the turn, in order
    exc,                \* the exception that left stream_reply or its generator
    \* ---- inputs and results of the pure functions checked on their own
    fn,                 \* which function is applied ("none" in the turn machine)
    arg,                \* its input
    res                 \* its result (None before it is applied)

turnVars == <<pc, turn, messages, attachments, last_error, active_model,
              model_override, memory_enabled, moderation_enabled, token_usage,
              session_log, session_usage, short_term, long_term, ledger,
              moderation_log, user_text, moderation_result, model_choice,
              context_text, prompt, aggregated, yielded, new_attachments,
              sync_result, events, exc>>
fnVars == <<fn, arg, res>>
vars == <<pc, turn, messages, attachments, last_error, active_model,
          model_override, memory_enabled, moderation_enabled, token_usage,
          session_log, session_usage, short_term, long_term, ledger,
          moderation_log, user_text, moderation_result, model_choice,
          context_text, prompt, aggregated, yielded, new_attachments,
          sync_result, events, exc, fn, arg, res>>

(***************************************************************************)
(* Sequence helpers.                                                       *)
(***************************************************************************)
RECURSIVE SeqsUpTo(_, _)
SeqsUpTo(S, n) ==
    IF n = 0 THEN {<<>>}
    ELSE LET shorter == SeqsUpTo(S, n - 1)
         IN shorter \cup {Append(s, x) : s \in {t \in shorter : Len(t) = n - 1}, x \in S}

Range(s) == {s[i] : i \in 1..Len(s)}
Reverse(s) == [i \in 1..Len(s) |-> s[Len(s) + 1 - i]]
Last(s) == s[Len(s)]

(***************************************************************************)
(* app/moderation.py : ModerationController.evaluate                       *)
(* A policy is [default_action, categories] where categories is a function *)
(* from the configured category names to actions.  The classifier result   *)
(* is the ordered dict `categories`, a sequence of [cat, flagged] items.   *)
(***************************************************************************)
Categories == {"hate", "violence", "political"}
NoReason == <<>>

\* the lookup of line 86 with ALLOW for a category the policy does not list
PolicyAction_MissingAllows(policy, category) ==
    IF category \in DOMAIN policy.categories
    THEN policy.categories[category]
    ELSE ALLOW

PolicyAction(policy, category) ==
    IF category \in DOMAIN policy.categories
    THEN policy.categories[category]
    ELSE policy.default_action

FlaggedCategories(categories) ==
    SelectSeq(categories, LAMBDA item : item.flagged)

\* evaluate's loop without the break and the `action != BLOCK` guard of line 91:
\* a category met after the blocking one overrides the block
RECURSIVE EvaluateLoop_NoBreak(_, _, _, _)
EvaluateLoop_NoBreak(policy, flagged_categories, i, st) ==
    IF i > Len(flagged_categories) THEN st
    ELSE LET category == flagged_categories[i].cat
             policy_action == PolicyAction(policy, category)
             st1 == IF policy_action = BLOCK
                    THEN [st EXCEPT !.action = BLOCK,
                                    !.reason = <<"Blocked by policy", category>>]
                    ELSE IF policy_action = FLAG
                    THEN [st EXCEPT !.action = FLAG,
                                    !.reason = <<"Monitoring category", category>>]
                    ELSE [st EXCEPT !.allow_override = TRUE]
         IN EvaluateLoop_NoBreak(policy, flagged_categories, i + 1, st1)

\* evaluate's loop keeping the reason of the first flag-resolved category
RECURSIVE EvaluateLoop_FirstFlag(_, _, _, _)
EvaluateLoop_FirstFlag(policy, flagged_categories, i, st) ==
    IF i > Len(flagged_categories) THEN st
    ELSE LET category == flagged_categories[i].cat
             policy_action == PolicyAction(policy, category)
         IN IF policy_action = BLOCK
            THEN [st EXCEPT !.action = BLOCK, !.reason = <<"Blocked by policy", category>>]
            ELSE LET st1 == IF policy_action = FLAG /\ st.action = ALLOW
                            THEN [st EXCEPT !.action = FLAG,
                                            !.reason = <<"Monitoring category", category>>]
                            ELSE st
                     st2 == IF policy_action = ALLOW
                            THEN [st1 EXCEPT !.allow_override = TRUE]
                            ELSE st1
                 IN EvaluateLoop_FirstFlag(policy, flagged_categories, i + 1, st2)

\* the for loop of evaluate, from position i with the loop state st
RECURSIVE EvaluateLoop(_, _, _, _)
EvaluateLoop(policy, flagged_categories, i, st) ==
    IF i > Len(flagged_categories) THEN st
    ELSE LET category == flagged_categories[i].cat
             policy_action == PolicyAction(policy, category)
         IN IF policy_action = BLOCK
            THEN [st EXCEPT !.action = BLOCK, !.reason = <<"Blocked by policy", category>>]
            ELSE LET st1 == IF policy_action = FLAG /\ st.action # BLOCK
                            THEN [st EXCEPT !.action = FLAG,
                                            !.reason = <<"Monitoring category", category>>]
                            ELSE st
                     st2 == IF policy_action = ALLOW
                            THEN [st1 EXCEPT !.allow_override = TRUE]
                            ELSE st1
                 IN EvaluateLoop(policy, flagged_categories, i + 1, st2)

\* evaluate for a text that is not blank; `logged` tells whether log_event is
\* called.  category_scores is kept by its keys: the classifier reports a
\* score for each category it reports.
evaluate(policy, categories) ==
    LET flagged_categories == FlaggedCategories(categories)
        flagged == Len(flagged_categories) > 0
        st == EvaluateLoop(policy, flagged_categories, 1,
                           [action |-> ALLOW, reason |-> NoReason, allow_override |-> FALSE])
        fallback == st.action = ALLOW /\ flagged /\ ~st.allow_override
        action == IF fallback THEN policy.default_action ELSE st.action
        reason == IF fallback /\ st.reason = NoReason
                  THEN <<"Default action applied", policy.default_action>>
                  ELSE st.reason
    IN [action |-> action, flagged |-> flagged, categories |-> categories,
        category_scores |-> [i \in 1..Len(categories) |-> categories[i].cat],
        reason |-> reason, logged |-> action # ALLOW]

\* the result for a blank text, and for a session with moderation disabled
AllowResult ==
    [action |-> ALLOW, flagged |-> FALSE, categories |-> <<>>,
     category_scores |-> <<>>, reason |-> NoReason, logged |-> FALSE]

(***************************************************************************)
(* app/router.py : select_model and _derive_tools                          *)
(* A routing context carries the text as the features the router tests:    *)
(* its length, whether _contains_code matches and whether a TECH_KEYWORDS  *)
(* entry occurs.  Attachments are the sequence of their types.             *)
(***************************************************************************)
default_model == "gpt-4o-mini"
vision_model == "gpt-4o-mini"
gpt5_model == "gpt-5"

persona_map ==
    [p \in {"Ashley", "Python Expert", "NSFW"} |->
        CASE p = "Ashley" -> default_model
          [] p = "Python Expert" -> "deepseek-coder"
          [] p = "NSFW" -> "undiopenhermes"]

AdvancedPersonas == {"ml_ai_prompt", "hybrid", "csharp_dotnet_prompt"}
DocumentTypes == {"pdf", "csv", "txt", "code"}

_contains_code(text) == text.code

\* _derive_tools reading its model parameter: the mid-tier model brings search
_derive_tools_ByModel(context, model) ==
    (IF \E i \in 1..Len(context.attachments) : context.attachments[i] \in DocumentTypes
     THEN <<"file_qna">> ELSE <<>>)
    \o (IF \E i \in 1..Len(context.attachments) : context.attachments[i] = "image"
        THEN <<"vision">> ELSE <<>>)
    \o (IF _contains_code(context.text) THEN <<"code">> ELSE <<>>)
    \o (IF context.text.len > SearchToolChars \/ model = "gpt-4o"
        THEN <<"search">> ELSE <<>>)

_derive_tools(context, model) ==
    (IF \E i \in 1..Len(context.attachments) : context.attachments[i] \in DocumentTypes
     THEN <<"file_qna">> ELSE <<>>)
    \o (IF \E i \in 1..Len(context.attachments) : context.attachments[i] = "image"
        THEN <<"vision">> ELSE <<>>)
    \o (IF _contains_code(context.text) THEN <<"code">> ELSE <<>>)
    \o (IF context.text.len > SearchToolChars THEN <<"search">> ELSE <<>>)

\* the loop of lines 86-91 without its return: the last mapped persona wins
FirstMapped_Last(persona_names) ==
    LET hits == {i \in 1..Len(persona_names) : persona_names[i] \in DOMAIN persona_map}
    IN IF hits = {} THEN 0 ELSE CHOOSE i \in hits : \A j \in hits : i >= j

\* index of the first persona of persona_names that persona_map knows, or 0
FirstMapped(persona_names) ==
    LET hits == {i \in 1..Len(persona_names) : persona_names[i] \in DOMAIN persona_map}
    IN IF hits = {} THEN 0 ELSE CHOOSE i \in hits : \A j \in hits : i <= j

\* select_model with the persona mapping consulted before the override
select_model_PersonaFirst(context) ==
    LET k == FirstMapped(context.persona_names)
    IN IF k # 0
       THEN [model |-> persona_map[context.persona_names[k]],
             reason |-> "Persona-based routing",
             tools |-> _derive_tools(context, persona_map[context.persona_names[k]])]
       ELSE [model |-> IF context.override_model \in {None, ""}
                       THEN default_model ELSE context.override_model,
             reason |-> "User override",
             tools |-> _derive_tools(context, default_model)]

\* select_model with force_lightweight tested before the vision request
select_model_LightweightFirst(context) ==
    IF context.override_model # None /\ context.override_model # ""
    THEN [model |-> context.override_model, reason |-> "User override",
          tools |-> _derive_tools(context, context.override_model)]
    ELSE
    LET needs_vision == context.force_vision
                        \/ \E i \in 1..Len(context.attachments) : context.attachments[i] = "image"
        contains_code == _contains_code(context.text)
        contains_tech == context.text.tech
        long_input == context.text.len > LongInputChars
                      \/ context.history_message_count > LongHistoryCount
        advanced_persona == \E i \in 1..Len(context.persona_names) :
                                context.persona_names[i] \in AdvancedPersonas
        k == FirstMapped(context.persona_names)
    IN IF k # 0
       THEN [model |-> persona_map[context.persona_names[k]],
             reason |-> "Persona-based routing",
             tools |-> _derive_tools(context, persona_map[context.persona_names[k]])]
       ELSE LET pick ==
                   IF context.force_lightweight
                   THEN <<default_model, "Forced lightweight mode">>
                   ELSE IF needs_vision THEN <<vision_model, "Vision request">>
                   ELSE IF contains_code \/ contains_tech \/ advanced_persona
                        THEN <<gpt5_model, "Technical content detected">>
                   ELSE IF long_input THEN <<"gpt-4o", "Long input or history">>
                   ELSE <<default_model, "Default routing">>
            IN [model |-> pick[1], reason |-> pick[2],
                tools |-> _derive_tools(context, pick[1])]

select_model(context) ==
    IF context.override_model # None /\ context.override_model # ""
    THEN [model |-> context.override_model, reason |-> "User override",
          tools |-> _derive_tools(context, context.override_model)]
    ELSE
    LET needs_vision == context.force_vision
                        \/ \E i \in 1..Len(context.attachments) : context.attachments[i] = "image"
        contains_code == _contains_code(context.text)
        contains_tech == context.text.tech
        long_input == context.text.len > LongInputChars
                      \/ context.history_message_count > LongHistoryCount
        advanced_persona == \E i \in 1..Len(context.persona_names) :
                                context.persona_names[i] \in AdvancedPersonas
        k == FirstMapped(context.persona_names)
    IN IF k # 0
       THEN [model |-> persona_map[context.persona_names[k]],
             reason |-> "Persona-based routing",
             tools |-> _derive_tools(context, persona_map[context.persona_names[k]])]
       ELSE LET pick ==
                   IF needs_vision THEN <<vision_model, "Vision request">>
                   ELSE IF context.force_lightweight
                        THEN <<default_model, "Forced lightweight mode">>
                   ELSE IF contains_code \/ contains_tech \/ advanced_persona
                        THEN <<gpt5_model, "Technical content detected">>
                   ELSE IF long_input THEN <<"gpt-4o", "Long input or history">>
                   ELSE <<default_model, "Default routing">>
            IN [model |-> pick[1], reason |-> pick[2],
                tools |-> _derive_tools(context, pick[1])]

(***************************************************************************)
(* tools/tokenizer.py                                                      *)
(* A content is a sequence of characters over {a, b}.  The encoder stands  *)
(* for the byte-pair encoder of tiktoken: it merges the pair "ab" into one *)
(* token, greedily from the left, and decode concatenates the tokens'      *)
(* characters, so that decode(encode(c)) = c and a slice of tokens decodes *)
(* to a substring of the content.                                          *)
(***************************************************************************)
Chars == {"a", "b"}

RECURSIVE encode(_)
encode(content) ==
    IF Len(content) = 0 THEN <<>>
    ELSE IF Len(content) >= 2 /\ content[1] = "a" /\ content[2] = "b"
         THEN <<SubSeq(content, 1, 2)>> \o encode(SubSeq(content, 3, Len(content)))
         ELSE <<SubSeq(content, 1, 1)>> \o encode(SubSeq(content, 2, Len(content)))

RECURSIVE decode(_)
decode(tokens) ==
    IF Len(tokens) = 0 THEN <<>> ELSE Head(tokens) \o decode(Tail(tokens))

\* tokens[:n], the slice truncate_text takes, in place of tokens[-n:]
TailSlice_Head(tokens, n) ==
    IF n >= Len(tokens) THEN tokens ELSE SubSeq(tokens, 1, n)

\* Python's tokens[-n:] for n > 0
TailSlice(tokens, n) ==
    IF n >= Len(tokens) THEN tokens
    ELSE SubSeq(tokens, Len(tokens) - n + 1, Len(tokens))

RECURSIVE count_message_tokens(_)
count_message_tokens(msgs) ==
    IF Len(msgs) = 0 THEN ReplyPriming
    ELSE Len(encode(Head(msgs).content)) + PerMessageOverhead
         + count_message_tokens(Tail(msgs))

\* safe_truncate_messages dropping the overflowing message instead of keeping
\* a tail of it
RECURSIVE TruncateLoop_DropOverflow(_, _, _, _, _)
TruncateLoop_DropOverflow(reversed, max_prompt_tokens, i, total_tokens, truncated) ==
    IF i > Len(reversed) THEN truncated
    ELSE LET message == reversed[i]
             message_tokens == Len(encode(message.content)) + PerMessageOverhead
         IN IF total_tokens + message_tokens > max_prompt_tokens
            THEN truncated
            ELSE TruncateLoop_DropOverflow(reversed, max_prompt_tokens, i + 1,
                                           total_tokens + message_tokens,
                                           Append(truncated, message))

\* the loop of safe_truncate_messages over reversed(messages), from position i,
\* with the running total and the list collected so far (newest first)
RECURSIVE TruncateLoop(_, _, _, _, _)
TruncateLoop(reversed, max_prompt_tokens, i, total_tokens, truncated) ==
    IF i > Len(reversed) THEN truncated
    ELSE LET message == reversed[i]
             content == message.content
             message_tokens == Len(encode(content)) + PerMessageOverhead
         IN IF total_tokens + message_tokens > max_prompt_tokens
            THEN LET remaining == max_prompt_tokens - total_tokens - PerMessageOverhead
                 IN IF remaining > 0
                    THEN Append(truncated,
                                [message EXCEPT
                                    !.content = decode(TailSlice(encode(content), remaining))])
                    ELSE truncated
            ELSE TruncateLoop(reversed, max_prompt_tokens, i + 1,
                              total_tokens + message_tokens, Append(truncated, message))

safe_truncate_messages(msgs, max_prompt_tokens) ==
    Reverse(TruncateLoop(Reverse(msgs), max_prompt_tokens, 1, 0, <<>>))

(***************************************************************************)
(* The turn machine: ChatOrchestrator.stream_reply and its _generator.     *)
(* A step runs from one call of an external collaborator (classifier,      *)
(* retrieval, search, sandbox, inference) or one yield to the next; the    *)
(* collaborator's outcome is the step's input.                             *)
(***************************************************************************)
\* user texts, by the features the code tests: length, _contains_code, a
\* technical keyword, blank after strip(), a leading command and whether
\* something follows the command
Text(len, code, tech, blank, cmd, rest) ==
    [len |-> len, code |-> code, tech |-> tech, blank |-> blank, cmd |-> cmd, rest |-> rest]

Texts ==
    { Text(12, FALSE, FALSE, FALSE, "none", FALSE),     \* "hello there"
      Text(2, FALSE, FALSE, TRUE, "none", FALSE),       \* "  "
      Text(300, FALSE, FALSE, FALSE, "none", FALSE),    \* a long question
      Text(300, FALSE, FALSE, FALSE, "/search", TRUE),  \* "/search " + long query
      Text(20, TRUE, FALSE, FALSE, "!run", TRUE) }      \* "!run def f(): ..."

AttachmentLists == {<<>>, <<"pdf">>}

\* settings.moderation_policy of app/config.py, restricted to Categories
DefaultPolicy ==
    [default_action |-> FLAG,
     categories |-> [c \in Categories |->
                        CASE c = "hate" -> BLOCK
                          [] c = "violence" -> FLAG
                          [] c = "political" -> ALLOW]]

\* results of create_moderation: the `categories` dict in reported order
Item(c, f) == [cat |-> c, flagged |-> f]
ClassifierResults ==
    { <<Item("hate", FALSE), Item("violence", FALSE)>>,
      <<Item("hate", TRUE), Item("violence", FALSE)>>,
      <<Item("hate", FALSE), Item("violence", TRUE)>> }

ClassifierOutcomes ==
    {[raises |-> TRUE, categories |-> <<>>]}
    \cup {[raises |-> FALSE, categories |-> c] : c \in ClassifierResults}

LogOutcomes == {"written", "raise"}

Fragments == {"x"}
SyncTexts == {<<>>, <<"s">>}
TokenCount(p, c) == [prompt_tokens |-> p, completion_tokens |-> c]
Usages == {TokenCount(2, 1), TokenCount(1, 2)}

Message(role, content) == [role |-> role, content |-> content, turn |-> turn]

NoChoice == [model |-> None, reason |-> None, tools |-> <<>>]
NoUsage == [prompt_tokens |-> 0, completion_tokens |-> 0, total_tokens |-> 0]
NoText == Text(0, FALSE, FALSE, TRUE, "none", FALSE)

\* a ChatState as create_chat_state builds it (app/state.py lines 52-75), with
\* the stores empty; the three session settings are given
Constructed(override, memory, moderation) ==
    /\ pc = "idle"
    /\ turn = 0
    /\ messages = <<>>
    /\ attachments = <<>>
    /\ last_error = None
    /\ active_model = default_model
    /\ model_override = override
    /\ memory_enabled = memory
    /\ moderation_enabled = moderation
    /\ token_usage = NoUsage
    /\ session_log = <<>>
    /\ session_usage = NoUsage
    /\ short_term = <<>>
    /\ long_term = <<>>
    /\ ledger = [prompt_tokens |-> 0, completion_tokens |-> 0]
    /\ moderation_log = <<>>
    /\ user_text = NoText
    /\ moderation_result = AllowResult
    /\ model_choice = NoChoice
    /\ context_text = <<>>
    /\ prompt = <<>>
    /\ aggregated = <<>>
    /\ yielded = <<>>
    /\ new_attachments = <<>>
    /\ sync_result = [text |-> <<>>, usage |-> TokenCount(0, 0)]
    /\ events = <<>>
    /\ exc = None

Init ==
    /\ \E override \in {None, "gpt-4o"}, memory \in BOOLEAN, moderation \in BOOLEAN :
          Constructed(override, memory, moderation)
    /\ fn = "none"
    /\ arg = None
    /\ res = None

persona_names == <<"Ashley">>

\* add_message keeping one entry per role: the new entry takes the place of
\* the last entry of the same role
add_message_ReplaceLast(msgs, role, content) ==
    IF \E i \in 1..Len(msgs) : msgs[i].role = role
    THEN LET k == CHOOSE i \in 1..Len(msgs) :
                     /\ msgs[i].role = role
                     /\ \A j \in 1..Len(msgs) : msgs[j].role = role => j <= i
         IN [msgs EXCEPT ![k] = Message(role, content)]
    ELSE Append(msgs, Message(role, content))

\* ChatState.add_message, app/state.py lines 98-105
add_message(msgs, role, content) == Append(msgs, Message(role, content))

\* update assigning the turn's counts instead of adding them
TokenUsage_update_Overwrite(self, prompt_tokens, completion_tokens) ==
    [prompt_tokens |-> prompt_tokens,
     completion_tokens |-> completion_tokens,
     total_tokens |-> prompt_tokens + completion_tokens]

\* TokenUsage.update, app/state.py lines 27-31
TokenUsage_update(self, prompt_tokens, completion_tokens) ==
    [prompt_tokens |-> self.prompt_tokens + prompt_tokens,
     completion_tokens |-> self.completion_tokens + completion_tokens,
     total_tokens |-> self.total_tokens + prompt_tokens + completion_tokens]

\* _handle_moderation returning a block result instead of raising
_handle_moderation_NoRaise(text, classifier, log) ==
    IF ~moderation_enabled \/ text.blank \/ classifier.raises
    THEN [result |-> AllowResult, events |-> <<>>, raises |-> None]
    ELSE LET result == evaluate(DefaultPolicy, classifier.categories)
         IN [result |-> result,
             events |-> <<"create_moderation">>
                        \o (IF result.logged THEN <<"log_event">> ELSE <<>>),
             raises |-> None]

\* _handle_moderation calling the classifier a second time after an error and
\* letting the turn through when that fails too
_handle_moderation_Retries(text, classifier, log) ==
    IF ~moderation_enabled \/ text.blank
    THEN [result |-> AllowResult, events |-> <<>>, raises |-> None]
    ELSE IF classifier.raises
    THEN [result |-> AllowResult, events |-> <<"create_moderation", "create_moderation">>,
          raises |-> None]
    ELSE LET result == evaluate(DefaultPolicy, classifier.categories)
         IN [result |-> result,
             events |-> <<"create_moderation">>
                        \o (IF result.logged THEN <<"log_event">> ELSE <<>>),
             raises |-> IF result.action = BLOCK THEN "ModerationError" ELSE None]

\* _handle_moderation without the test of state.moderation_enabled (line 152)
_handle_moderation_IgnoresSwitch(text, classifier, log) ==
    IF text.blank
    THEN [result |-> AllowResult, events |-> <<>>, raises |-> None]
    ELSE IF classifier.raises
    THEN [result |-> AllowResult, events |-> <<"create_moderation">>,
          raises |-> "ClassifierError"]
    ELSE LET result == evaluate(DefaultPolicy, classifier.categories)
         IN [result |-> result,
             events |-> <<"create_moderation">>
                        \o (IF result.logged THEN <<"log_event">> ELSE <<>>),
             raises |-> IF result.action = BLOCK THEN "ModerationError" ELSE None]

\* ChatOrchestrator._handle_moderation, lines 151-157, with evaluate's early
\* return for a blank text; the classifier raises or returns its categories,
\* and log_event (moderation.py lines 99-106, called outside any try) writes
\* its entry or raises, in which case evaluate returns no result
_handle_moderation(text, classifier, log) ==
    IF ~moderation_enabled \/ text.blank
    THEN [result |-> AllowResult, events |-> <<>>, raises |-> None]
    ELSE IF classifier.raises
    THEN [result |-> AllowResult, events |-> <<"create_moderation">>,
          raises |-> "ClassifierError"]
    ELSE LET result == evaluate(DefaultPolicy, classifier.categories)
         IN IF result.logged /\ log = "raise"
            THEN [result |-> AllowResult,
                  events |-> <<"create_moderation", "log_event:raised">>,
                  raises |-> "LogWriteError"]
            ELSE [result |-> result,
                  events |-> <<"create_moderation">>
                             \o (IF result.logged THEN <<"log_event">> ELSE <<>>),
                  raises |-> IF result.action = BLOCK THEN "ModerationError" ELSE None]

\* stream_reply, lines 165-168: a new turn starts when no turn is in flight
SubmitTurn(text, atts, classifier, log) ==
    /\ fn \in {"none", "session", "promotion", "commands", "streaming", "memory"}
    /\ pc \in {"idle", "done", "raised"}
    /\ turn < (CASE fn = "session" -> MaxSessionTurns
                  [] fn \in {"promotion", "memory"} -> MaxPromotionTurns
                  [] OTHER -> MaxTurns)
    /\ LET m == _handle_moderation(text, classifier, log)
       IN /\ moderation_result' = m.result
          /\ events' = m.events
          /\ exc' = m.raises
          /\ pc' = IF m.raises = None THEN "route" ELSE "raised"
          /\ moderation_log' = IF m.result.logged /\ m.raises # "ClassifierError"
                               THEN Append(moderation_log,
                                           [turn |-> turn + 1, action |-> m.result.action])
                               ELSE moderation_log
    /\ turn' = turn + 1
    /\ user_text' = text
    /\ new_attachments' = atts
    /\ attachments' = attachments \o atts
    /\ last_error' = None
    /\ model_choice' = NoChoice
    /\ context_text' = <<>>
    /\ prompt' = <<>>
    /\ aggregated' = <<>>
    /\ yielded' = <<>>
    /\ UNCHANGED <<messages, active_model, model_override, memory_enabled,
                   moderation_enabled, token_usage, session_log, session_usage,
                   short_term, long_term, ledger, sync_result, fn, arg, res>>

\* stream_reply, lines 170-181
RoutingContextOf ==
    [text |-> user_text,
     persona_names |-> persona_names,
     attachments |-> attachments,
     history_message_count |-> Len(messages),
     override_model |-> model_override,
     force_vision |-> \E i \in 1..Len(new_attachments) : new_attachments[i] = "image",
     force_lightweight |-> FALSE]

Route ==
    /\ pc = "route"
    /\ model_choice' = select_model(RoutingContextOf)
    /\ active_model' = model_choice'.model
    /\ events' = Append(events, "select_model")
    /\ pc' = "build_context"
    /\ UNCHANGED <<turn, messages, attachments, last_error, model_override,
                   memory_enabled, moderation_enabled, token_usage, session_log,
                   session_usage, short_term, long_term, ledger, moderation_log,
                   user_text, moderation_result, context_text, prompt, aggregated,
                   yielded, new_attachments, sync_result, exc, fn, arg, res>>

\* _build_context, lines 42-45, called at line 190: the retrieval collaborator
\* returns a text, returns "" or raises; nothing catches the exception
BuildContext(outcome) ==
    /\ pc = "build_context"
    /\ IF "file_qna" \in Range(model_choice.tools)
       THEN /\ events' = Append(events, IF outcome = "raise"
                                         THEN "build_context:raised"
                                         ELSE "build_context")
            /\ context_text' = IF outcome = "text" THEN <<"file">> ELSE <<>>
            /\ pc' = IF outcome = "raise" THEN "raised" ELSE "tool_context"
            /\ exc' = IF outcome = "raise" THEN "RetrievalError" ELSE None
       ELSE /\ outcome = "empty"
            /\ pc' = "tool_context"
            /\ UNCHANGED <<events, context_text, exc>>
    /\ UNCHANGED <<turn, messages, attachments, last_error, active_model,
                   model_override, memory_enabled, moderation_enabled, token_usage,
                   session_log, session_usage, short_term, long_term, ledger,
                   moderation_log, user_text, moderation_result, model_choice,
                   prompt, aggregated, yielded, new_attachments, sync_result,
                   fn, arg, res>>

\* app/services/context_builder.py, sanitize_tool_output: control characters
\* removed, "<script" replaced, the text cut to max_chars.  A section built
\* from a collaborator's text is kept by what it is about and by whether the
\* text holds something this function changes (":unsafe").
sanitize_tool_output(text) ==
    CASE text = "search:unsafe" -> "search"
      [] text = "code:unsafe" -> "code"
      [] OTHER -> text

\* _tool_context, lines 47-87, called at lines 191-193.  web_search returns
\* hits, returns nothing or raises (caught at line 59); exec_code returns a
\* result or raises (not caught).  The hits' titles, snippets and URLs and
\* the formatted result go into the section as they are.
SearchQuery ==
    IF user_text.cmd = "/search" THEN TRUE      \* the rest of the line, or user_text
    ELSE user_text.len > AutoSearchChars

\* the code after "!run": a fenced block is looked for only when trimmed is
\* exactly "!run", and then user_text holds no fence
RunCode == user_text.cmd = "!run" /\ user_text.rest

ToolContext(search, sandbox) ==
    /\ pc = "tool_context"
    /\ LET searches == "search" \in Range(model_choice.tools) /\ SearchQuery
           runs == "code" \in Range(model_choice.tools) /\ RunCode
           sections == (IF searches /\ search = "hits" THEN <<"search">>
                        ELSE IF searches /\ search = "hits:unsafe" THEN <<"search:unsafe">>
                        ELSE <<>>)
                       \o (IF runs /\ sandbox = "result" THEN <<"code">>
                           ELSE IF runs /\ sandbox = "result:unsafe" THEN <<"code:unsafe">>
                           ELSE <<>>)
       IN /\ ~searches => search = "none"
          /\ ~runs => sandbox = "result"
          /\ events' = events
                       \o (IF ~searches THEN <<>>
                           ELSE IF search = "raise" THEN <<"web_search:raised">>
                           ELSE <<"web_search">>)
                       \o (IF ~runs THEN <<>>
                           ELSE IF sandbox = "raise" THEN <<"exec_code:raised">>
                           ELSE <<"exec_code">>)
          /\ IF runs /\ sandbox = "raise"
             THEN /\ pc' = "raised"
                  /\ exc' = "SandboxError"
                  /\ UNCHANGED context_text
             ELSE /\ pc' = "persist"
                  /\ exc' = None
                  /\ context_text' = context_text \o sections
    /\ UNCHANGED <<turn, messages, attachments, last_error, active_model,
                   model_override, memory_enabled, moderation_enabled, token_usage,
                   session_log, session_usage, short_term, long_term, ledger,
                   moderation_log, user_text, moderation_result, model_choice,
                   prompt, aggregated, yielded, new_attachments, sync_result,
                   fn, arg, res>>

\* lines 194-200
user_payload ==
    IF user_text.cmd = "/search" THEN <<"query">>
    ELSE IF user_text.cmd = "!run" THEN <<"review">>
    ELSE <<"text">>

\* _memory_context without the test of state.memory_enabled (lines 90-91)
_memory_context_IgnoresSwitch(hit) ==
    (IF Len(short_term) > 0 THEN <<"short_term">> ELSE <<>>)
    \o (IF hit THEN <<"long_term">> ELSE <<>>)

\* _memory_context, lines 89-103
_memory_context(hit) ==
    IF ~memory_enabled THEN <<>>
    ELSE (IF Len(short_term) > 0 THEN <<"short_term">> ELSE <<>>)
         \o (IF hit THEN <<"long_term">> ELSE <<>>)

\* _prepare_messages, lines 105-149, over the state.messages it is given.  The
\* histories of this model stay far below max_prompt_tokens (4096), where
\* safe_truncate_messages returns its input.
_prepare_messages(msgs, payload, context, memory) ==
    LET history_plain == [i \in 1..Len(msgs) |->
                             [role |-> msgs[i].role, content |-> msgs[i].content]]
                         \o <<[role |-> "user", content |-> payload]>>
    IN <<[role |-> "system", content |-> <<"persona">>]>>
       \o (IF Len(context) > 0 THEN <<[role |-> "system", content |-> context]>> ELSE <<>>)
       \o (IF Len(memory) > 0 THEN <<[role |-> "system", content |-> memory]>> ELSE <<>>)
       \o history_plain

\* stream_reply leaving the session-log write of the user turn to the end of
\* the turn: the generator is returned with the turn only in state.messages
PersistUser_NoLogWrite(hit) ==
    /\ pc = "persist"
    /\ hit => memory_enabled /\ Len(long_term) > 0
    /\ messages' = add_message(messages, "user", <<"text">>)
    /\ prompt' = _prepare_messages(messages', user_payload, context_text, _memory_context(hit))
    /\ events' = Append(events, "add_message:user")
    /\ pc' = "generator"
    /\ UNCHANGED <<turn, attachments, last_error, active_model, model_override,
                   memory_enabled, moderation_enabled, token_usage, session_log,
                   session_usage, short_term, long_term, ledger, moderation_log,
                   user_text, moderation_result, model_choice, context_text,
                   aggregated, yielded, new_attachments, sync_result, exc,
                   fn, arg, res>>

\* stream_reply, lines 202-222 and 328: memory context, the user turn is
\* recorded, the prompt is built and the generator is returned
PersistUser(hit) ==
    /\ pc = "persist"
    /\ hit => memory_enabled /\ Len(long_term) > 0
    /\ messages' = add_message(messages, "user", <<"text">>)
    /\ session_log' = Append(session_log, Message("user", <<"text">>))
    /\ short_term' = IF memory_enabled
                     THEN Append(short_term, Message("user", <<"text">>))
                     ELSE short_term
    /\ prompt' = _prepare_messages(messages', user_payload, context_text, _memory_context(hit))
    /\ events' = events
                 \o (IF memory_enabled THEN <<"get_short_term", "search_long_term">> ELSE <<>>)
                 \o <<"add_message:user", "append_message:user">>
                 \o (IF memory_enabled THEN <<"append_short_term:user">> ELSE <<>>)
    /\ pc' = "generator"
    /\ UNCHANGED <<turn, attachments, last_error, active_model, model_override,
                   memory_enabled, moderation_enabled, token_usage, session_usage,
                   long_term, ledger, moderation_log, user_text, moderation_result,
                   model_choice, context_text, aggregated, yielded, new_attachments,
                   sync_result, exc, fn, arg, res>>

(***************************************************************************)
(* The reply generator, lines 224-326.                                     *)
(***************************************************************************)
\* _finalize_response, lines 224-273, as the next-state of what it writes;
\* called holds the turn's calls up to the call of _finalize_response
FinalizeAfter(called, assistant_text, usage) ==
    /\ messages' = add_message(messages, "assistant", assistant_text)
    /\ session_log' = Append(session_log, Message("assistant", assistant_text))
    /\ short_term' = IF memory_enabled
                     THEN Append(short_term, Message("assistant", assistant_text))
                     ELSE short_term
    /\ long_term' = IF memory_enabled /\ Len(messages') % PromoteEvery = 0
                       /\ Len(assistant_text) > 0
                    THEN Append(long_term, Message("assistant", assistant_text))
                    ELSE long_term
    /\ token_usage' = TokenUsage_update(token_usage, usage.prompt_tokens,
                                        usage.completion_tokens)
    /\ ledger' = [prompt_tokens |-> ledger.prompt_tokens + usage.prompt_tokens,
                  completion_tokens |-> ledger.completion_tokens + usage.completion_tokens]
    /\ session_usage' = [prompt_tokens |-> usage.prompt_tokens,
                         completion_tokens |-> usage.completion_tokens,
                         total_tokens |-> usage.prompt_tokens + usage.completion_tokens]
    /\ last_error' = None
    /\ events' = called
                 \o <<"add_message:assistant", "append_message:assistant">>
                 \o (IF memory_enabled THEN <<"append_short_term:assistant">> ELSE <<>>)
                 \o (IF long_term' # long_term THEN <<"add_long_term">> ELSE <<>>)
                 \o <<"token_usage.update", "usage_tracker.update", "update_usage">>
    /\ pc' = "done"

_finalize_response(assistant_text, usage) == FinalizeAfter(events, assistant_text, usage)

\* line 277: the streaming call returns its stream.  stream_response is a
\* generator function: the call runs none of its body.
StreamCall ==
    /\ pc = "generator"
    /\ events' = Append(events, "stream_response")
    /\ pc' = "streaming"
    /\ UNCHANGED <<turn, messages, attachments, last_error, active_model,
                   model_override, memory_enabled, moderation_enabled, token_usage,
                   session_log, session_usage, short_term, long_term, ledger,
                   moderation_log, user_text, moderation_result, model_choice,
                   context_text, prompt, aggregated, yielded, new_attachments,
                   sync_result, exc, fn, arg, res>>

\* lines 286-292: the except clause around the streaming call, entered when
\* the call itself raises.  The call of tools/openai_client.stream_response
\* runs none of its body, so this step stands for a stream collaborator that
\* fails when called; every failure of the repository's own stream_response
\* is a StreamError below.
StreamCallRaises ==
    /\ pc = "generator"
    /\ events' = Append(events, "stream_response:raised")
    /\ pc' = "fallback"
    /\ UNCHANGED <<turn, messages, attachments, last_error, active_model,
                   model_override, memory_enabled, moderation_enabled, token_usage,
                   session_log, session_usage, short_term, long_term, ledger,
                   moderation_log, user_text, moderation_result, model_choice,
                   context_text, prompt, aggregated, yielded, new_attachments,
                   sync_result, exc, fn, arg, res>>

\* the loop body putting the newest chunk at the head of the collected ones
StreamChunk_NewestFirst(text) ==
    /\ pc = "streaming"
    /\ Len(aggregated) < MaxChunks
    /\ aggregated' = <<text>> \o aggregated
    /\ yielded' = Append(yielded, text)
    /\ UNCHANGED <<pc, turn, messages, attachments, last_error, active_model,
                   model_override, memory_enabled, moderation_enabled, token_usage,
                   session_log, session_usage, short_term, long_term, ledger,
                   moderation_log, user_text, moderation_result, model_choice,
                   context_text, prompt, new_attachments, sync_result, events,
                   exc, fn, arg, res>>

\* lines 319-322: next(stream) returns a chunk, which is collected and yielded
StreamChunk(text) ==
    /\ pc = "streaming"
    /\ Len(aggregated) < MaxChunks
    /\ aggregated' = Append(aggregated, text)
    /\ yielded' = Append(yielded, text)
    /\ UNCHANGED <<pc, turn, messages, attachments, last_error, active_model,
                   model_override, memory_enabled, moderation_enabled, token_usage,
                   session_log, session_usage, short_term, long_term, ledger,
                   moderation_log, user_text, moderation_result, model_choice,
                   context_text, prompt, new_attachments, sync_result, events,
                   exc, fn, arg, res>>

\* lines 323-326: next(stream) raises StopIteration carrying the StreamResult
StreamEnd(usage) ==
    /\ pc = "streaming"
    /\ _finalize_response(aggregated, usage)
    /\ UNCHANGED <<turn, attachments, active_model, model_override,
                   memory_enabled, moderation_enabled, moderation_log, user_text,
                   moderation_result, model_choice, context_text, prompt,
                   aggregated, yielded, new_attachments, sync_result, exc,
                   fn, arg, res>>

\* line 320: next(stream) raises anything else (get_client, the connection,
\* a response.error event, get_final_response).  The try around it catches
\* StopIteration only, so the exception leaves the generator.
StreamError ==
    /\ pc = "streaming"
    /\ events' = Append(events, "stream:raised")
    /\ exc' = "StreamError"
    /\ pc' = "raised"
    /\ UNCHANGED <<turn, messages, attachments, last_error, active_model,
                   model_override, memory_enabled, moderation_enabled, token_usage,
                   session_log, session_usage, short_term, long_term, ledger,
                   moderation_log, user_text, moderation_result, model_choice,
                   context_text, prompt, aggregated, yielded, new_attachments,
                   sync_result, fn, arg, res>>

\* the fallback without the test of line 313: an empty text is yielded too
SyncReturns_AlwaysYields(text, usage) ==
    /\ pc = "fallback"
    /\ yielded' = Append(yielded, text)
    /\ sync_result' = [text |-> text, usage |-> usage]
    /\ events' = Append(events, "complete_response")
    /\ pc' = "sync_yielded"
    /\ UNCHANGED <<messages, session_log, short_term, long_term,
                   token_usage, ledger, session_usage, last_error>>
    /\ UNCHANGED <<turn, attachments, active_model, model_override,
                   memory_enabled, moderation_enabled, moderation_log, user_text,
                   moderation_result, model_choice, context_text, prompt,
                   aggregated, new_attachments, exc, fn, arg, res>>

\* lines 293-315: complete_response returns; a non-empty text is yielded and
\* the generator waits for the caller, an empty one is finalized at once
SyncReturns(text, usage) ==
    /\ pc = "fallback"
    /\ IF Len(text) > 0
       THEN /\ yielded' = Append(yielded, text)
            /\ sync_result' = [text |-> text, usage |-> usage]
            /\ events' = Append(events, "complete_response")
            /\ pc' = "sync_yielded"
            /\ UNCHANGED <<messages, session_log, short_term, long_term,
                           token_usage, ledger, session_usage, last_error>>
       ELSE /\ sync_result' = [text |-> text, usage |-> usage]
            /\ yielded' = yielded
            /\ FinalizeAfter(Append(events, "complete_response"), text, usage)
    /\ UNCHANGED <<turn, attachments, active_model, model_override,
                   memory_enabled, moderation_enabled, moderation_log, user_text,
                   moderation_result, model_choice, context_text, prompt,
                   aggregated, new_attachments, exc, fn, arg, res>>

\* line 315, when the caller resumes the generator after the yield of line 314
SyncResume ==
    /\ pc = "sync_yielded"
    /\ _finalize_response(sync_result.text, sync_result.usage)
    /\ UNCHANGED <<turn, attachments, active_model, model_override,
                   memory_enabled, moderation_enabled, moderation_log, user_text,
                   moderation_result, model_choice, context_text, prompt,
                   aggregated, yielded, new_attachments, sync_result, exc,
                   fn, arg, res>>

\* the inner except clause re-raising without recording the error on the state
SyncRaises_NoLastError ==
    /\ pc = "fallback"
    /\ events' = Append(events, "complete_response:raised")
    /\ exc' = "InferenceError"
    /\ pc' = "raised"
    /\ UNCHANGED <<turn, messages, attachments, last_error, active_model,
                   model_override, memory_enabled, moderation_enabled, token_usage,
                   session_log, session_usage, short_term, long_term, ledger,
                   moderation_log, user_text, moderation_result, model_choice,
                   context_text, prompt, aggregated, yielded, new_attachments,
                   sync_result, fn, arg, res>>

\* lines 303-311: complete_response raises too
SyncRaises ==
    /\ pc = "fallback"
    /\ last_error' = "final_exc"
    /\ events' = Append(events, "complete_response:raised")
    /\ exc' = "InferenceError"
    /\ pc' = "raised"
    /\ UNCHANGED <<turn, messages, attachments, active_model, model_override,
                   memory_enabled, moderation_enabled, token_usage, session_log,
                   session_usage, short_term, long_term, ledger, moderation_log,
                   user_text, moderation_result, model_choice, context_text,
                   prompt, aggregated, yielded, new_attachments, sync_result,
                   fn, arg, res>>

Next ==
    \/ \E text \in Texts, atts \in AttachmentLists, classifier \in ClassifierOutcomes,
          log \in LogOutcomes :
          SubmitTurn(text, atts, classifier, log)
    \/ Route
    \/ \E outcome \in {"text", "empty", "raise"} : BuildContext(outcome)
    \/ \E search \in {"hits", "none", "raise"}, sandbox \in {"result", "raise"} :
          ToolContext(search, sandbox)
    \/ \E hit \in BOOLEAN : PersistUser(hit)
    \/ StreamCall
    \/ StreamCallRaises
    \/ \E text \in Fragments : StreamChunk(text)
    \/ \E usage \in Usages : StreamEnd(usage)
    \/ StreamError
    \/ \E text \in SyncTexts, usage \in Usages : SyncReturns(text, usage)
    \/ SyncResume
    \/ SyncRaises

Spec == Init /\ [][Next]_vars

(***************************************************************************)
(* The pure functions on their own: the input is drawn in the initial      *)
(* state and one step applies the function.                                *)
(***************************************************************************)
\* ---- ModerationController.evaluate over every policy and classifier result
Policies ==
    { [default_action |-> d, categories |-> c] :
        d \in ModerationAction,
        c \in UNION { [D -> ModerationAction] : D \in SUBSET Categories } }

ReportedCategories ==
    { s \in SeqsUpTo({Item(c, f) : c \in Categories, f \in BOOLEAN}, MaxReported) :
        \A i, j \in 1..Len(s) : i # j => s[i].cat # s[j].cat }

InitEvaluate ==
    /\ Constructed(None, TRUE, TRUE)
    /\ fn = "evaluate"
    /\ arg \in { [policy |-> p, categories |-> c] : p \in Policies, c \in ReportedCategories }
    /\ res = None

ApplyEvaluate ==
    /\ fn = "evaluate"
    /\ res' = evaluate(arg.policy, arg.categories)
    /\ fn' = "evaluate:done"
    /\ UNCHANGED <<arg, turnVars>>

SpecEvaluate == InitEvaluate /\ [][ApplyEvaluate]_vars

\* ---- select_model over routing contexts
RouterTexts ==
    { [len |-> l, code |-> c, tech |-> t] : l \in {0, 12, 250, 300}, c \in BOOLEAN, t \in BOOLEAN }

PersonaLists ==
    { <<>>, <<"general">>, <<"Ashley">>, <<"hybrid">>, <<"general", "Python Expert">>,
      <<"Python Expert", "Ashley">>, <<"hybrid", "NSFW">> }

RouterAttachments == { <<>>, <<"pdf">>, <<"image">>, <<"audio">>, <<"csv", "image">> }

RoutingContexts ==
    { [text |-> t, persona_names |-> p, attachments |-> a, history_message_count |-> h,
       override_model |-> o, force_vision |-> fv, force_lightweight |-> fl] :
        t \in RouterTexts, p \in PersonaLists, a \in RouterAttachments, h \in {0, 25},
        o \in {None, "", "gpt-4o", "my-local-model"}, fv \in BOOLEAN, fl \in BOOLEAN }

InitRouter ==
    /\ Constructed(None, TRUE, TRUE)
    /\ fn = "select_model"
    /\ arg \in RoutingContexts
    /\ res = None

ApplyRouter ==
    /\ fn = "select_model"
    /\ res' = select_model(arg)
    /\ fn' = "select_model:done"
    /\ UNCHANGED <<arg, turnVars>>

SpecRouter == InitRouter /\ [][ApplyRouter]_vars

\* ---- safe_truncate_messages over message lists and budgets
Contents == SeqsUpTo(Chars, MaxContentLen)

\* the i-th message of a list carries id i, so that a message of the result
\* can be told from another one with the same content
MessageLists ==
    { [i \in 1..Len(cs) |-> [id |-> i, content |-> cs[i]]] : cs \in SeqsUpTo(Contents, MaxMsgs) }

InitTruncate ==
    /\ Constructed(None, TRUE, TRUE)
    /\ fn = "safe_truncate_messages"
    /\ arg \in { [messages |-> m, max_prompt_tokens |-> b] :
                   m \in MessageLists, b \in 0..MaxBudget }
    /\ res = None

ApplyTruncate ==
    /\ fn = "safe_truncate_messages"
    /\ res' = safe_truncate_messages(arg.messages, arg.max_prompt_tokens)
    /\ fn' = "safe_truncate_messages:done"
    /\ UNCHANGED <<arg, turnVars>>

SpecTruncate == InitTruncate /\ [][ApplyTruncate]_vars

\* ---- the turn machine together with select_model on its own
InitRouting == Init \/ InitRouter

NextRouting == Next \/ ApplyRouter

SpecRouting == InitRouting /\ [][NextRouting]_vars

\* ---- a session of several turns: the turn machine over plain texts without
\* attachments, where the turns differ by the outcomes of moderation and of
\* inference
SessionTexts == { Text(12, FALSE, FALSE, FALSE, "none", FALSE) }

InitSession ==
    /\ \E memory \in BOOLEAN : Constructed(None, memory, TRUE)
    /\ fn = "session"
    /\ arg = None
    /\ res = None

NextSession ==
    \/ \E text \in SessionTexts, classifier \in ClassifierOutcomes, log \in LogOutcomes :
          SubmitTurn(text, <<>>, classifier, log)
    \/ Route
    \/ BuildContext("empty")
    \/ ToolContext("none", "result")
    \/ \E hit \in BOOLEAN : PersistUser(hit)
    \/ StreamCall
    \/ StreamCallRaises
    \/ \E text \in Fragments : StreamChunk(text)
    \/ \E usage \in Usages : StreamEnd(usage)
    \/ StreamError
    \/ \E text \in SyncTexts, usage \in Usages : SyncReturns(text, usage)
    \/ SyncResume
    \/ SyncRaises

SpecSession == InitSession /\ [][NextSession]_vars

\* ---- a longer session with memory, for the promotion to long-term memory:
\* plain texts that moderation allows or blocks, replies that stream to
\* their end or fail while they are read
InitPromotion ==
    /\ \E memory \in BOOLEAN : Constructed(None, memory, TRUE)
    /\ fn = "promotion"
    /\ arg = None
    /\ res = None

NextPromotion ==
    \/ \E text \in SessionTexts,
          categories \in { <<Item("hate", FALSE), Item("violence", FALSE)>>,
                           <<Item("hate", TRUE), Item("violence", FALSE)>> } :
          SubmitTurn(text, <<>>, [raises |-> FALSE, categories |-> categories], "written")
    \/ Route
    \/ BuildContext("empty")
    \/ ToolContext("none", "result")
    \/ \E hit \in BOOLEAN : PersistUser(hit)
    \/ StreamCall
    \/ \E text \in Fragments : StreamChunk(text)
    \/ StreamEnd(TokenCount(2, 1))
    \/ StreamError

SpecPromotion == InitPromotion /\ [][NextPromotion]_vars

\* ---- the same session over a memory store that may already hold entries:
\* short-term rows of the session and long-term entries written before the
\* session's memory switch took its present value
StoredMemories == {<<>>, <<[role |-> "assistant", content |-> <<"x">>, turn |-> 0]>>}

InitMemory ==
    /\ pc = "idle"
    /\ turn = 0
    /\ messages = <<>>
    /\ attachments = <<>>
    /\ last_error = None
    /\ active_model = default_model
    /\ model_override = None
    /\ memory_enabled \in BOOLEAN
    /\ moderation_enabled = TRUE
    /\ token_usage = NoUsage
    /\ session_log = <<>>
    /\ session_usage = NoUsage
    /\ short_term \in StoredMemories
    /\ long_term \in StoredMemories
    /\ ledger = [prompt_tokens |-> 0, completion_tokens |-> 0]
    /\ moderation_log = <<>>
    /\ user_text = NoText
    /\ moderation_result = AllowResult
    /\ model_choice = NoChoice
    /\ context_text = <<>>
    /\ prompt = <<>>
    /\ aggregated = <<>>
    /\ yielded = <<>>
    /\ new_attachments = <<>>
    /\ sync_result = [text |-> <<>>, usage |-> TokenCount(0, 0)]
    /\ events = <<>>
    /\ exc = None
    /\ fn = "memory"
    /\ arg = None
    /\ res = None

SpecMemory == InitMemory /\ [][NextPromotion]_vars

\* ---- one plain turn up to the end of its reply generator, with a stream of
\* fragments that can be told apart
StreamFragments == {"x", "y"}

InitStreaming ==
    /\ \E override \in {None, "gpt-4o"}, memory \in BOOLEAN :
          Constructed(override, memory, TRUE)
    /\ fn = "streaming"
    /\ arg = None
    /\ res = None

NextStreaming ==
    \/ \E text \in SessionTexts :
          SubmitTurn(text, <<>>, [raises |-> FALSE, categories |-> <<Item("hate", FALSE)>>],
                     "written")
    \/ Route
    \/ BuildContext("empty")
    \/ ToolContext("none", "result")
    \/ PersistUser(FALSE)
    \/ StreamCall
    \/ StreamCallRaises
    \/ \E text \in StreamFragments : StreamChunk(text)
    \/ \E usage \in Usages : StreamEnd(usage)
    \/ StreamError
    \/ \E text \in SyncTexts, usage \in Usages : SyncReturns(text, usage)
    \/ SyncResume
    \/ SyncRaises

SpecStreaming == InitStreaming /\ [][NextStreaming]_vars

\* ---- turns that carry a "/search" or "!run" command, with collaborators
\* whose text may hold control characters, markup or more than max_chars
CommandTexts ==
    { Text(12, FALSE, FALSE, FALSE, "/search", TRUE),    \* "/search tla"
      Text(300, FALSE, FALSE, FALSE, "/search", TRUE),   \* "/search " + long query
      Text(10, FALSE, FALSE, FALSE, "!run", TRUE),       \* "!run x = 1"
      Text(20, TRUE, FALSE, FALSE, "!run", TRUE),        \* "!run import os"
      Text(4, FALSE, FALSE, FALSE, "!run", FALSE) }      \* "!run"

InitCommands ==
    /\ \E memory \in BOOLEAN : Constructed(None, memory, TRUE)
    /\ fn = "commands"
    /\ arg = None
    /\ res = None

NextCommands ==
    \/ \E text \in CommandTexts,
          categories \in {<<Item("hate", FALSE)>>, <<Item("hate", TRUE)>>} :
          SubmitTurn(text, <<>>, [raises |-> FALSE, categories |-> categories], "written")
    \/ Route
    \/ BuildContext("empty")
    \/ \E search \in {"hits", "hits:unsafe", "none", "raise"},
          sandbox \in {"result", "result:unsafe", "raise"} :
          ToolContext(search, sandbox)
    \/ PersistUser(FALSE)
    \/ StreamCall
    \/ \E text \in Fragments : StreamChunk(text)
    \/ \E usage \in Usages : StreamEnd(usage)
    \/ StreamError

SpecCommands == InitCommands /\ [][NextCommands]_vars

(***************************************************************************)
(* Properties.                                                             *)
(***************************************************************************)
Count(s, S) == Cardinality({i \in 1..Len(s) : s[i] \in S})
TurnOver == pc \in {"done", "raised"}
OfTurn(log, role) == {i \in 1..Len(log) : log[i].role = role /\ log[i].turn = turn}
UserPersisted == OfTurn(session_log, "user") # {}
AssistantPersisted == OfTurn(session_log, "assistant") # {}
StreamCalls == {"stream_response", "stream_response:raised"}
SyncCalls == {"complete_response", "complete_response:raised"}
StreamFailures == {"stream_response:raised", "stream:raised"}
InferenceCalls == StreamCalls \cup SyncCalls

\* C1: once a turn that passed moderation (its user turn is persisted) has run
\* its reply generator until it returned or raised, exactly one of "an
\* assistant turn was persisted for it" and "state.last_error is set" holds.
C1_ExactlyOneOutcome ==
    (TurnOver /\ UserPersisted) => (AssistantPersisted <=> last_error = None)

\* C2: the streaming call is made at most once and the synchronous call at
\* most once per turn, and a turn whose streaming call failed, when the stream
\* was established or while it was read, has made exactly one synchronous call.
C2_FallbackAfterStreamError ==
    /\ Count(events, StreamCalls) <= 1
    /\ Count(events, SyncCalls) <= 1
    /\ (TurnOver /\ Count(events, StreamFailures) > 0) => Count(events, SyncCalls) = 1

\* C3: when moderation resolves the turn's text to block, stream_reply raises
\* ModerationError and no later step runs for the turn: no routing, no search,
\* retrieval or code-execution call, no inference call, nothing appended to
\* state.messages, the session log or the memories, and no usage update.
ModerationEvents == {"create_moderation", "log_event"}
Blocked == turn > 0 /\ moderation_result.action = BLOCK
C3_BlockedState ==
    Blocked =>
        /\ pc = "raised"
        /\ exc = "ModerationError"
        /\ Range(events) \subseteq ModerationEvents
        /\ model_choice = NoChoice
        /\ OfTurn(messages, "user") = {}
        /\ OfTurn(session_log, "user") = {}
        /\ OfTurn(short_term, "user") = {}
C3_BlockedStep ==
    Blocked' => UNCHANGED <<messages, session_log, short_term, long_term,
                            token_usage, ledger, session_usage>>
C3_BlockRunsNothing == []C3_BlockedState /\ [][C3_BlockedStep]_vars
C3_Witness == pc = "raised" /\ exc = "ModerationError" /\ Blocked

\* C4: evaluate returns block if and only if at least one flagged category
\* resolves, through its policy entry or default_action, to block, whatever
\* the other flagged categories resolve to and wherever they stand.
ResolvesTo(action) ==
    {i \in 1..Len(arg.categories) :
        /\ arg.categories[i].flagged
        /\ PolicyAction(arg.policy, arg.categories[i].cat) = action}
C4_BlockIffBlockCategory ==
    fn = "evaluate:done" => (res.action = BLOCK <=> ResolvesTo(BLOCK) # {})
C4_Witness ==
    /\ fn = "evaluate:done"
    /\ res.action = BLOCK
    /\ \E i \in ResolvesTo(FLAG), j \in ResolvesTo(BLOCK) : i < j
    /\ "hate" \notin DOMAIN arg.policy.categories
    /\ \E j \in ResolvesTo(BLOCK) : arg.categories[j].cat = "hate"

\* C5: the result of safe_truncate_messages, counted by count_message_tokens,
\* is at most max_prompt_tokens.
C5_WithinBudget ==
    fn = "safe_truncate_messages:done" => count_message_tokens(res) <= arg.max_prompt_tokens

IsSuffix(s, t) ==
    Len(s) <= Len(t) /\ s = SubSeq(t, Len(t) - Len(s) + 1, Len(t))

\* the most recent message of the input is the last one of the result, in
\* full or as a tail of its content
KeepsMostRecent ==
    /\ Len(res) > 0
    /\ Last(res).id = Last(arg.messages).id
    /\ IsSuffix(Last(res).content, Last(arg.messages).content)
    /\ Last(res) # Last(arg.messages) => Len(Last(res).content) > 0

\* C6 as claimed: for a non-empty list and max_prompt_tokens > 0 the result
\* ends with the most recent message, in full or truncated to a tail.
C6_MostRecentKept_Claimed ==
    (fn = "safe_truncate_messages:done" /\ Len(arg.messages) > 0
        /\ arg.max_prompt_tokens > 0) => KeepsMostRecent

\* C6: for a non-empty list and max_prompt_tokens above the per-message
\* overhead of 3 tokens the result ends with the most recent message, in full
\* or truncated to a non-empty tail of its content; the result is empty only
\* when the list is empty or max_prompt_tokens is at most 3.
C6_MostRecentKept ==
    fn = "safe_truncate_messages:done" =>
        /\ (Len(arg.messages) > 0 /\ arg.max_prompt_tokens > PerMessageOverhead)
              => KeepsMostRecent
        /\ Len(res) = 0
              => (Len(arg.messages) = 0 \/ arg.max_prompt_tokens <= PerMessageOverhead)
C6_Witness ==
    /\ fn = "safe_truncate_messages:done"
    /\ arg.max_prompt_tokens > PerMessageOverhead
    /\ Len(arg.messages) = 2
    /\ Len(res) = 1
    /\ Last(res).id = 2
    /\ Last(res).content # Last(arg.messages).content

\* C7: the result is a chronological suffix of the input: an input that fits
\* the budget is returned unchanged; otherwise the messages newer than the
\* first overflowing one (walking from the newest) are returned unmodified and
\* in order, the overflowing one is dropped or kept with a tail of its content
\* only, and every older message is dropped.
RECURSIVE CostFrom(_, _)
CostFrom(msgs, i) ==
    IF i > Len(msgs) THEN 0
    ELSE Len(encode(msgs[i].content)) + PerMessageOverhead + CostFrom(msgs, i + 1)
Overflowing == {i \in 1..Len(arg.messages) : CostFrom(arg.messages, i) > arg.max_prompt_tokens}
FirstOverflow == CHOOSE i \in Overflowing : \A j \in Overflowing : j <= i
C7_ChronologicalSuffix ==
    fn = "safe_truncate_messages:done" =>
        IF Overflowing = {} THEN res = arg.messages
        ELSE LET o == FirstOverflow
                 newer == SubSeq(arg.messages, o + 1, Len(arg.messages))
             IN \/ res = newer
                \/ /\ Len(res) = Len(newer) + 1
                   /\ SubSeq(res, 2, Len(res)) = newer
                   /\ res[1].id = o
                   /\ res[1].content # arg.messages[o].content
                   /\ IsSuffix(res[1].content, arg.messages[o].content)
C7_Witness ==
    /\ fn = "safe_truncate_messages:done"
    /\ Overflowing # {}
    /\ Len(res) = 2
    /\ FirstOverflow = 1
    /\ Len(res[1].content) > 0
    /\ res[1].content # arg.messages[1].content
    /\ Len(encode(arg.messages[1].content)) < Len(arg.messages[1].content)

\* C8: with a non-empty override_model, select_model returns that model
\* whatever the personas, attachments, force flags, text and history length,
\* and once stream_reply has routed a turn of a session whose model_override
\* is set, state.active_model is that override.
Routed == "select_model" \in Range(events)
C8_OverrideWins ==
    /\ (fn = "select_model:done" /\ arg.override_model \notin {None, ""})
          => res.model = arg.override_model
    /\ (fn = "none" /\ Routed /\ model_override # None)
          => (model_choice.model = model_override /\ active_model = model_override)
C8_Witness ==
    /\ fn = "none"
    /\ pc = "done"
    /\ model_override = "gpt-4o"
    /\ active_model = "gpt-4o"
    /\ user_text.code
    /\ persona_names[1] \in DOMAIN persona_map

\* C9: a failure of the search, file-retrieval or code-execution collaborator
\* is not propagated by stream_reply: the turn goes on to inference and the
\* user turn is persisted.
ContextFailures == {"build_context:raised", "web_search:raised", "exec_code:raised"}
C9_DegradedContextContinues ==
    Count(events, ContextFailures) > 0 =>
        /\ exc \notin {"RetrievalError", "SandboxError"}
        /\ pc \notin {"build_context", "tool_context", "persist"} => UserPersisted

\* C10: in a non-blocked turn the user turn is appended to state.messages,
\* written to the session log and, with memory enabled, to short-term memory
\* before the first streaming or synchronous inference call of the turn.
Before(e, i) == \E j \in 1..(i - 1) : events[j] = e
C10_UserRecordedBeforeInference ==
    \A i \in 1..Len(events) :
        events[i] \in InferenceCalls =>
            /\ Before("add_message:user", i)
            /\ Before("append_message:user", i)
            /\ memory_enabled => Before("append_short_term:user", i)
            /\ OfTurn(messages, "user") # {}
            /\ OfTurn(session_log, "user") # {}
            /\ memory_enabled => OfTurn(short_term, "user") # {}
C10_Witness ==
    /\ pc = "raised"
    /\ exc = "StreamError"
    /\ memory_enabled
    /\ OfTurn(session_log, "user") # {}
    /\ OfTurn(short_term, "user") # {}
    /\ ~AssistantPersisted

\* C11: for a turn that moderation let through, the session log receives
\* exactly one user record, followed by at most one assistant record, and
\* nothing else; the assistant record is written only after an inference call
\* of the turn has completed and never in a turn whose inference failed.
PassedModeration == turn > 0 /\ pc # "idle" /\ exc \notin {"ModerationError", "ClassifierError", "LogWriteError"}
RecordsOfTurn == SelectSeq(session_log, LAMBDA r : r.turn = turn)
InferenceFailed == {"stream:raised", "complete_response:raised"}
C11_SessionLogRecords ==
    PassedModeration =>
        /\ Len(RecordsOfTurn) <= 2
        /\ Len(RecordsOfTurn) >= 1 => RecordsOfTurn[1].role = "user"
        /\ Len(RecordsOfTurn) = 2 =>
              /\ RecordsOfTurn[2].role = "assistant"
              /\ Count(events, {"stream_response", "complete_response"}) > 0
              /\ Count(events, InferenceFailed) = 0
              /\ pc = "done"
        /\ TurnOver => Len(RecordsOfTurn) >= 1

\* C12: in a turn where the streaming call and then the synchronous call both
\* fail, the generator raises the failure, state.last_error holds the error,
\* no assistant message is in state.messages or the session log, and the
\* token usage of the state, of the session store and of the ledger are left
\* as they were.
UsageWrites == {"token_usage.update", "usage_tracker.update", "update_usage"}
BothFailed ==
    /\ "stream_response:raised" \in Range(events)
    /\ "complete_response:raised" \in Range(events)
C12_BothFailedState ==
    BothFailed =>
        /\ pc = "raised"
        /\ exc = "InferenceError"
        /\ last_error = "final_exc"
        /\ OfTurn(messages, "assistant") = {}
        /\ OfTurn(session_log, "assistant") = {}
        /\ Count(events, UsageWrites) = 0
C12_BothFailedStep ==
    BothFailed' => UNCHANGED <<messages, session_log, token_usage, session_usage, ledger>>
Completes == pc # "done" /\ pc' = "done"
UsageDelta ==
    TokenCount(token_usage'.prompt_tokens - token_usage.prompt_tokens,
               token_usage'.completion_tokens - token_usage.completion_tokens)
C13_UsageState ==
    /\ Count(events, {"token_usage.update"}) <= 1
    /\ pc = "done" <=> Count(events, {"token_usage.update"}) = 1
    /\ token_usage.total_tokens = token_usage.prompt_tokens + token_usage.completion_tokens
C13_UsageStep ==
    /\ token_usage'.prompt_tokens >= token_usage.prompt_tokens
    /\ token_usage'.completion_tokens >= token_usage.completion_tokens
    /\ IF Completes
       THEN /\ UsageDelta \in Usages
            /\ "complete_response" \in Range(events') => UsageDelta = sync_result'.usage
       ELSE token_usage' = token_usage
C13_UsageAccumulates == []C13_UsageState /\ [][C13_UsageStep]_vars
C13_Witness ==
    /\ turn = 2
    /\ pc = "done"
    /\ Count(messages, {m \in Range(messages) : m.role = "assistant"}) = 2
    /\ token_usage.prompt_tokens = 3
    /\ token_usage.completion_tokens = 3

(***************************************************************************)
(* storage/usage_tracker.py : UsageTracker.update called by the turns of   *)
(* several sessions at once.  `ledger` is what usage.json holds for the    *)
(* month (no usage yet), arg each session's delta, res each call's         *)
(* position and the aggregate it holds in memory.  _load returns {} for a  *)
(* file it cannot parse, so a file that write_text has truncated and not   *)
(* yet written reads as zero totals.                                       *)
(***************************************************************************)
Sessions == 1..MaxSessions
ZeroTotals == [prompt_tokens |-> 0, completion_tokens |-> 0]
LedgerDeltas == {TokenCount(p, c) : p \in 1..2, c \in 1..2}

InitLedger ==
    /\ Constructed(None, TRUE, TRUE)
    /\ arg \in { [previous |-> ledger, delta |-> d] : d \in [Sessions -> LedgerDeltas] }
    /\ fn = "usage_tracker.update"
    /\ res = [s \in Sessions |-> [pc |-> "load", agg |-> ZeroTotals]]

LedgerUnchanged ==
    UNCHANGED <<pc, turn, messages, attachments, last_error, active_model,
                model_override, memory_enabled, moderation_enabled, token_usage,
                session_log, session_usage, short_term, long_term,
                moderation_log, user_text, moderation_result, model_choice,
                context_text, prompt, aggregated, yielded, new_attachments,
                sync_result, events, exc, fn, arg>>

\* lines 43-48: _load reads the file, the delta is added in memory
UpdateLoad(s) ==
    /\ fn = "usage_tracker.update"
    /\ res[s].pc = "load"
    /\ res' = [res EXCEPT ![s] =
                 [pc |-> "save",
                  agg |-> [prompt_tokens |-> ledger.prompt_tokens + arg.delta[s].prompt_tokens,
                           completion_tokens |-> ledger.completion_tokens
                                                 + arg.delta[s].completion_tokens]]]
    /\ UNCHANGED ledger
    /\ LedgerUnchanged

\* line 32: write_text opens the file for writing, which empties it
UpdateTruncate(s) ==
    /\ fn = "usage_tracker.update"
    /\ res[s].pc = "save"
    /\ ledger' = ZeroTotals
    /\ res' = [res EXCEPT ![s].pc = "write"]
    /\ LedgerUnchanged

\* line 32: write_text writes the aggregate and closes the file
UpdateWrite(s) ==
    /\ fn = "usage_tracker.update"
    /\ res[s].pc = "write"
    /\ ledger' = res[s].agg
    /\ res' = [res EXCEPT ![s].pc = "done"]
    /\ LedgerUnchanged

NextLedger ==
    \/ \E s \in Sessions : UpdateLoad(s)
    \/ \E s \in Sessions : UpdateTruncate(s)
    \/ \E s \in Sessions : UpdateWrite(s)

SpecLedger == InitLedger /\ [][NextLedger]_vars

\* C14: once the concurrent calls of UsageTracker.update have all returned,
\* the ledger's prompt_tokens and completion_tokens are the totals before
\* plus the sum of the calls' deltas.
RECURSIVE SumDelta(_, _)
SumDelta(field, n) ==
    IF n = 0 THEN 0 ELSE arg.delta[n][field] + SumDelta(field, n - 1)
C14_LedgerAtomic ==
    (fn = "usage_tracker.update" /\ \A s \in Sessions : res[s].pc = "done") =>
        /\ ledger.prompt_tokens = arg.previous.prompt_tokens + SumDelta("prompt_tokens", MaxSessions)
        /\ ledger.completion_tokens
              = arg.previous.completion_tokens + SumDelta("completion_tokens", MaxSessions)

\* C15: in a session with moderation_enabled false, the moderation step of
\* every turn returns allow with empty category and score maps, calls the
\* classifier zero times and writes nothing to the moderation log, whatever
\* the text.
ModerationCalls == {"create_moderation", "log_event", "log_event:raised"}
C15_DisabledBypass ==
    (turn > 0 /\ ~moderation_enabled) =>
        /\ moderation_result.action = ALLOW
        /\ ~moderation_result.flagged
        /\ moderation_result.categories = <<>>
        /\ moderation_result.category_scores = <<>>
        /\ Count(events, ModerationCalls) = 0
        /\ moderation_log = <<>>
        /\ exc \notin {"ModerationError", "ClassifierError", "LogWriteError"}
C15_Witness ==
    /\ ~moderation_enabled
    /\ pc = "done"
    /\ ~user_text.blank
    /\ user_text.len > LongInputChars
    /\ OfTurn(session_log, "assistant") # {}

\* C16: a failure of log_event to write the entry of a flag or block decision
\* does not fail the turn: the exception of the write never leaves
\* stream_reply, and a turn whose decision was not block goes on to routing.
C16_LogFailureSwallowed ==
    "log_event:raised" \in Range(events) =>
        /\ exc # "LogWriteError"
        /\ pc = "raised" => exc = "ModerationError"

\* C17: the message list built for inference is the persona system message,
\* then the context system message if the context text is not empty, then the
\* memory system message if the memory text is not empty, then the history of
\* the earlier turns in order, then the current user turn, once, as the last
\* message.
Plain(msgs) == [i \in 1..Len(msgs) |-> [role |-> msgs[i].role, content |-> msgs[i].content]]
PriorHistory == Plain(SelectSeq(messages, LAMBDA m : m.turn < turn))
SystemBlocks == SelectSeq(prompt, LAMBDA m : m.role = "system")
C17_PromptOrder ==
    Len(prompt) > 0 =>
        /\ prompt[1] = [role |-> "system", content |-> <<"persona">>]
        /\ \A i \in 2..Len(SystemBlocks) : Len(SystemBlocks[i].content) > 0
        /\ Len(SystemBlocks) <= 3
        /\ Len(context_text) > 0
              <=> (Len(SystemBlocks) >= 2 /\ SystemBlocks[2].content = context_text)
        /\ ~memory_enabled
              => Len(SystemBlocks) = 1 + (IF Len(context_text) > 0 THEN 1 ELSE 0)
        /\ SubSeq(prompt, 1, Len(SystemBlocks)) = SystemBlocks
        /\ SubSeq(prompt, Len(SystemBlocks) + 1, Len(prompt))
              = PriorHistory \o <<[role |-> "user", content |-> user_payload]>>

\* C18: state.messages is append-only over the turns of a session, whether
\* they are blocked, fail or complete: every step leaves the earlier list as
\* a prefix of the later one.
IsPrefix(s, t) == Len(s) <= Len(t) /\ s = SubSeq(t, 1, Len(s))
C18_MessagesAppendOnly == [][IsPrefix(messages, messages')]_vars
C18_Witness ==
    /\ turn = 2
    /\ pc = "done"
    /\ Len(messages) = 3
    /\ messages[1].turn = 1
    /\ messages[2].turn = 2
    /\ messages[3].role = "assistant"

\* C19: after every completed turn of a session, the usage row of the session
\* store (prompt_tokens, completion_tokens, total_tokens) is the session's
\* cumulative usage: it equals state.token_usage, the sum of the usages of
\* the completed turns.
C19_PersistedUsageCumulative ==
    pc = "done" =>
        /\ session_usage.prompt_tokens = token_usage.prompt_tokens
        /\ session_usage.completion_tokens = token_usage.completion_tokens
        /\ session_usage.total_tokens = token_usage.total_tokens

(***************************************************************************)
(* tools/code_executor.py : execute and its worker process.  arg is the    *)
(* code by what matters here: whether it holds a prohibited keyword and    *)
(* whether it makes the worker ignore SIGTERM (math and statistics are in  *)
(* SAFE_GLOBALS, and statistics.sys.modules reaches the signal module      *)
(* without any prohibited keyword).  res is the call: its position, the    *)
(* worker process, the queue, whether join ran into the timeout, and the   *)
(* CodeExecutionResult returned.                                           *)
(***************************************************************************)
CodeExecutionResult(stderr, error, timeout) ==
    [stderr |-> stderr, error |-> error, timeout |-> timeout]
NoResult == CodeExecutionResult("", None, FALSE)

Codes == { [keyword |-> k, ignores_sigterm |-> i] : k \in BOOLEAN, i \in BOOLEAN }
Payloads == {None, "error"}     \* the "error" entry of the worker's payload
Alive == {"running", "flushing"}

\* format_result, lines 124-135
format_result(result) ==
    IF result.timeout THEN "Execution timed out."
    ELSE IF result.error # None THEN "Execution error"
    ELSE "output"

InitExecute ==
    /\ Constructed(None, TRUE, TRUE)
    /\ fn = "execute"
    /\ arg \in { [code |-> c, allow_unsafe |-> a] : c \in Codes, a \in BOOLEAN }
    /\ res = [pc |-> "check", worker |-> "none", queue |-> <<>>, expired |-> FALSE,
              result |-> NoResult]

\* a step of execute: res moves on, and the call is over when it returns
ExecuteStep(next, returns) ==
    /\ res' = next
    /\ fn' = IF returns THEN "execute:done" ELSE fn
    /\ UNCHANGED <<arg, turnVars>>

\* lines 80-91: the keyword screen
ExecuteCheck ==
    /\ fn = "execute" /\ res.pc = "check"
    /\ IF ~arg.allow_unsafe /\ arg.code.keyword
       THEN ExecuteStep([res EXCEPT !.pc = "returned",
                                    !.result = CodeExecutionResult(
                                        "Execution blocked by safety policy",
                                        "unsafe_code", FALSE)], TRUE)
       ELSE ExecuteStep([res EXCEPT !.pc = "start"], FALSE)

\* lines 92-94: the queue and the worker process are created
ExecuteStart ==
    /\ fn = "execute" /\ res.pc = "start"
    /\ ExecuteStep([res EXCEPT !.pc = "join", !.worker = "running"], FALSE)

\* _worker, lines 51-70: exec ends, normally or with an Exception, and the
\* payload is put on the queue; the process is still alive
WorkerPuts(error) ==
    /\ fn = "execute" /\ res.worker = "running"
    /\ ExecuteStep([res EXCEPT !.worker = "flushing", !.queue = <<error>>], FALSE)

\* the worker process ends once the payload is flushed
WorkerExits ==
    /\ fn = "execute" /\ res.worker = "flushing"
    /\ ExecuteStep([res EXCEPT !.worker = "exited"], FALSE)

\* the worker process ends with nothing on the queue (the case lines 106-113
\* answer: a crash of the interpreter, a payload that cannot be pickled)
WorkerDies ==
    /\ fn = "execute" /\ res.worker = "running"
    /\ ExecuteStep([res EXCEPT !.worker = "died"], FALSE)

\* line 95: proc.join(timeout) returns because the worker has ended
ExecuteJoinReturns ==
    /\ fn = "execute" /\ res.pc = "join"
    /\ res.worker \notin Alive
    /\ ExecuteStep([res EXCEPT !.pc = "is_alive"], FALSE)

\* line 95: proc.join(timeout) returns because the timeout has expired
ExecuteJoinTimesOut ==
    /\ fn = "execute" /\ res.pc = "join"
    /\ res.worker \in Alive
    /\ ExecuteStep([res EXCEPT !.pc = "is_alive", !.expired = TRUE], FALSE)

\* line 96: proc.is_alive()
ExecuteIsAlive ==
    /\ fn = "execute" /\ res.pc = "is_alive"
    /\ ExecuteStep([res EXCEPT !.pc = IF res.worker \in Alive THEN "terminate"
                                      ELSE "queue_empty"], FALSE)

\* line 97: proc.terminate() sends SIGTERM, which ends a worker that has not
\* changed the signal's disposition
ExecuteTerminate ==
    /\ fn = "execute" /\ res.pc = "terminate"
    /\ ExecuteStep([res EXCEPT !.pc = "join_after_terminate",
                               !.worker = IF res.worker \in Alive /\ ~arg.code.ignores_sigterm
                                          THEN "terminated" ELSE res.worker], FALSE)

\* lines 98-105: proc.join() without a timeout returns when the worker has
\* ended, and the timeout result is returned
ExecuteJoinAfterTerminate ==
    /\ fn = "execute" /\ res.pc = "join_after_terminate"
    /\ res.worker \notin Alive
    /\ ExecuteStep([res EXCEPT !.pc = "returned",
                               !.result = CodeExecutionResult("Execution timed out",
                                                              "timeout", TRUE)], TRUE)

\* lines 106-121: the payload is read from the queue, if there is one
ExecuteReadQueue ==
    /\ fn = "execute" /\ res.pc = "queue_empty"
    /\ IF Len(res.queue) = 0
       THEN ExecuteStep([res EXCEPT !.pc = "returned",
                                    !.result = CodeExecutionResult(
                                        "Unknown execution error", "unknown", FALSE)], TRUE)
       ELSE ExecuteStep([res EXCEPT !.pc = "returned", !.queue = <<>>,
                                    !.result = CodeExecutionResult(
                                        "", res.queue[1], FALSE)], TRUE)

NextExecute ==
    \/ ExecuteCheck
    \/ ExecuteStart
    \/ \E error \in Payloads : WorkerPuts(error)
    \/ WorkerExits
    \/ WorkerDies
    \/ ExecuteJoinReturns
    \/ ExecuteJoinTimesOut
    \/ ExecuteIsAlive
    \/ ExecuteTerminate
    \/ ExecuteJoinAfterTerminate
    \/ ExecuteReadQueue

SpecExecute == InitExecute /\ [][NextExecute]_vars

\* C20: execute returns from every call: a worker that execute finds alive
\* after the timeout has been terminated when execute waits for it, and the
\* call returns the result timeout=True with error "timeout", which
\* format_result turns into text; a timeout is never raised.
Executing == fn \in {"execute", "execute:done"}
C20_TimeoutTerminates ==
    Executing =>
        /\ res.pc = "join_after_terminate" => res.worker \notin Alive
        /\ res.result.timeout =>
              /\ fn = "execute:done"
              /\ res.expired
              /\ res.worker \notin Alive
              /\ res.result.error = "timeout"
              /\ format_result(res.result) = "Execution timed out."
        /\ (fn = "execute:done" /\ res.worker = "terminated") => res.result.timeout

\* C21: with memory enabled, the reply is promoted to long-term memory on
\* every 8th completed turn of the session and on no other turn, whatever
\* failed turns come in between.
CompletedTurns == Cardinality({i \in 1..Len(messages) : messages[i].role = "assistant"})
Promoted == "add_long_term" \in Range(events)
C21_PromotionEveryEighthTurn ==
    /\ Promoted => (memory_enabled /\ CompletedTurns % PromoteEvery = 0)
    /\ (pc = "done" /\ memory_enabled /\ CompletedTurns % PromoteEvery = 0) => Promoted
    /\ Len(long_term) = (IF memory_enabled THEN CompletedTurns \div PromoteEvery ELSE 0)

\* C22: in every turn the classifier is called at most once; after a
\* classifier error there is no second call and the error leaves stream_reply;
\* and the call comes before every routing, context-building, persistence and
\* inference step of the turn.
ClassifierCalls == {i \in 1..Len(events) : events[i] = "create_moderation"}
C22_ClassifierOnceAndFirst ==
    /\ Cardinality(ClassifierCalls) <= 1
    /\ ClassifierCalls \subseteq {1}
    /\ (turn > 0 /\ moderation_enabled /\ ~user_text.blank) => ClassifierCalls = {1}
    /\ exc = "ClassifierError" => (pc = "raised" /\ events = <<"create_moderation">>)
C22_Witness ==
    /\ pc = "raised"
    /\ exc = "ClassifierError"
    /\ events = <<"create_moderation">>
    /\ session_log = <<>>
C22_WitnessAllowed ==
    /\ pc = "done"
    /\ ClassifierCalls = {1}
    /\ Len(events) > 5

\* C23: when no flagged category resolves to block and at least one resolves
\* to flag, evaluate returns flag with a reason naming the last flag-resolved
\* category in the reported order; when every flagged category resolves to
\* allow, or nothing is flagged, evaluate returns allow and logs nothing.
EvaluateDone == fn = "evaluate:done"
FlaggedOfArg == FlaggedCategories(arg.categories)
ResolvingTo(action) ==
    {i \in 1..Len(FlaggedOfArg) : PolicyAction(arg.policy, FlaggedOfArg[i].cat) = action}
MaxOf(S) == CHOOSE m \in S : \A n \in S : n <= m
C23_FlagNamesLastCategory ==
    EvaluateDone =>
        /\ (ResolvingTo(BLOCK) = {} /\ ResolvingTo(FLAG) # {}) =>
              /\ res.action = FLAG
              /\ res.reason = <<"Monitoring category", FlaggedOfArg[MaxOf(ResolvingTo(FLAG))].cat>>
              /\ res.logged
        /\ (ResolvingTo(BLOCK) = {} /\ ResolvingTo(FLAG) = {}) =>
              /\ res.action = ALLOW
              /\ ~res.logged
C23_Witness ==
    /\ EvaluateDone
    /\ ResolvingTo(BLOCK) = {}
    /\ Cardinality(ResolvingTo(FLAG)) = 2
    /\ res.action = FLAG
    /\ res.reason = <<"Monitoring category", FlaggedOfArg[2].cat>>
C23_WitnessAllowListed ==
    /\ EvaluateDone
    /\ ResolvingTo(ALLOW) # {}
    /\ ResolvingTo(BLOCK) = {} /\ ResolvingTo(FLAG) = {}
    /\ arg.policy.default_action = BLOCK
    /\ res.action = ALLOW /\ ~res.logged

\* C24: a flagged category with no entry in the policy's categories map is
\* resolved with the policy's default_action: with default_action block it
\* blocks, with default_action flag it counts as a flag category, and with
\* default_action allow it neither blocks nor flags.
Unlisted == {i \in 1..Len(FlaggedOfArg) : FlaggedOfArg[i].cat \notin DOMAIN arg.policy.categories}
ListedAs(action) ==
    {i \in 1..Len(FlaggedOfArg) :
        /\ FlaggedOfArg[i].cat \in DOMAIN arg.policy.categories
        /\ arg.policy.categories[FlaggedOfArg[i].cat] = action}
C24_UnlistedCategoryUsesDefault ==
    (EvaluateDone /\ Unlisted # {}) =>
        res.action = (CASE arg.policy.default_action = BLOCK -> BLOCK
                        [] arg.policy.default_action = FLAG ->
                              IF ListedAs(BLOCK) # {} THEN BLOCK ELSE FLAG
                        [] OTHER ->
                              IF ListedAs(BLOCK) # {} THEN BLOCK
                              ELSE IF ListedAs(FLAG) # {} THEN FLAG ELSE ALLOW)
C24_Witness ==
    /\ EvaluateDone
    /\ Unlisted # {}
    /\ ListedAs(BLOCK) = {} /\ ListedAs(FLAG) = {} /\ ListedAs(ALLOW) # {}
    /\ arg.policy.default_action = BLOCK
    /\ res.action = BLOCK
C24_WitnessAllow ==
    /\ EvaluateDone
    /\ Unlisted # {}
    /\ ListedAs(BLOCK) = {} /\ ListedAs(FLAG) = {}
    /\ arg.policy.default_action = ALLOW
    /\ res.action = ALLOW

\* C25: with no override_model, when some active persona has an entry in the
\* persona-to-model map, select_model returns the model of the first such
\* persona in the order of persona_names, whatever the attachments, the
\* force flags, the text and the history length are.
RouterDone == fn = "select_model:done"
NoOverride == arg.override_model \in {None, ""}
MappedPositions == {i \in 1..Len(arg.persona_names) : arg.persona_names[i] \in DOMAIN persona_map}
C25_FirstMappedPersonaWins ==
    (RouterDone /\ NoOverride /\ MappedPositions # {}) =>
        \E i \in MappedPositions :
            /\ \A j \in MappedPositions : i <= j
            /\ res.model = persona_map[arg.persona_names[i]]
            /\ res.reason = "Persona-based routing"
C25_Witness ==
    /\ RouterDone
    /\ NoOverride
    /\ arg.persona_names = <<"Python Expert", "Ashley">>
    /\ arg.attachments = <<"image">>
    /\ arg.text.tech /\ arg.text.len > LongInputChars
    /\ arg.force_lightweight
    /\ res.model = "deepseek-coder"

\* C26: with no override_model and no mapped persona, select_model applies
\* the heuristics in strict priority order: an image attachment or
\* force_vision gives the vision model; else force_lightweight gives the
\* default model; else code markers, a technical keyword or an advanced
\* persona gives the highest-capability model; else a text above the length
\* threshold or a history above the count threshold gives the mid-tier model;
\* else the default model.
HasImage == \E i \in 1..Len(arg.attachments) : arg.attachments[i] = "image"
IsTechnical ==
    \/ arg.text.code
    \/ arg.text.tech
    \/ \E i \in 1..Len(arg.persona_names) : arg.persona_names[i] \in AdvancedPersonas
IsLong == arg.text.len > LongInputChars \/ arg.history_message_count > LongHistoryCount
Picked(model, reason) == res.model = model /\ res.reason = reason
C26_HeuristicPriority ==
    (RouterDone /\ NoOverride /\ MappedPositions = {}) =>
        /\ (arg.force_vision \/ HasImage) => Picked(vision_model, "Vision request")
        /\ (~(arg.force_vision \/ HasImage) /\ arg.force_lightweight)
              => Picked(default_model, "Forced lightweight mode")
        /\ (~(arg.force_vision \/ HasImage) /\ ~arg.force_lightweight /\ IsTechnical)
              => Picked(gpt5_model, "Technical content detected")
        /\ (~(arg.force_vision \/ HasImage) /\ ~arg.force_lightweight /\ ~IsTechnical /\ IsLong)
              => Picked("gpt-4o", "Long input or history")
        /\ (~(arg.force_vision \/ HasImage) /\ ~arg.force_lightweight /\ ~IsTechnical /\ ~IsLong)
              => Picked(default_model, "Default routing")
C26_Witness ==
    /\ RouterDone /\ NoOverride /\ MappedPositions = {}
    /\ ~arg.force_vision /\ ~HasImage /\ ~arg.force_lightweight
    /\ arg.text.tech /\ ~arg.text.code /\ arg.text.len = 12
    /\ arg.history_message_count = 0
    /\ Picked(gpt5_model, "Technical content detected")
C26_WitnessVisionOverLightweight ==
    /\ RouterDone /\ NoOverride /\ MappedPositions = {}
    /\ HasImage /\ arg.force_lightweight /\ arg.text.code
    /\ Picked(vision_model, "Vision request")
C26_WitnessLongHistory ==
    /\ RouterDone /\ NoOverride /\ MappedPositions = {}
    /\ arg.text.len = 12 /\ arg.history_message_count > LongHistoryCount
    /\ Picked("gpt-4o", "Long input or history")

\* C27: the tools returned by select_model depend only on the text and the
\* attachments: every routing context with the same text and attachments
\* gets the same tools, whatever its override_model, persona_names, force
\* flags and history length; the tools are among file_qna, vision, code and
\* search; an attachment of an unknown type adds no tool and raises nothing.
KnownTools == {"file_qna", "vision", "code", "search"}
SameTextAndAttachments ==
    { [arg EXCEPT !.override_model = o, !.persona_names = p, !.force_vision = fv,
                  !.force_lightweight = fl, !.history_message_count = h] :
        o \in {None, "", "gpt-4o", "my-local-model"}, p \in PersonaLists,
        fv \in BOOLEAN, fl \in BOOLEAN, h \in {0, 25} }
KnownTypes == DocumentTypes \cup {"image"}
WithoutUnknownTypes == SelectSeq(arg.attachments, LAMBDA type : type \in KnownTypes)
C27_ToolsFromTextAndAttachments ==
    RouterDone =>
        /\ \A other \in SameTextAndAttachments : select_model(other).tools = res.tools
        /\ Range(res.tools) \subseteq KnownTools
        /\ Len(res.tools) = Cardinality(Range(res.tools))
        /\ \A other \in SameTextAndAttachments :
              select_model([other EXCEPT !.attachments = WithoutUnknownTypes]).tools = res.tools
        /\ "file_qna" \in Range(res.tools)
              <=> \E i \in 1..Len(arg.attachments) : arg.attachments[i] \in DocumentTypes
        /\ "vision" \in Range(res.tools) <=> HasImage
C27_Witness ==
    /\ RouterDone
    /\ arg.attachments = <<"audio">>
    /\ arg.text.len = 0
    /\ arg.history_message_count > LongHistoryCount
    /\ NoOverride /\ MappedPositions = {}
    /\ res.model = "gpt-4o"
    /\ res.tools = <<>>

\* C28: in every turn that is not blocked and whose text starts with
\* "/search" followed by a query, the search collaborator has been called by
\* the time context assembly is over, whatever the length of the text.
ContextAssembled == moderation_result.action # BLOCK /\ "add_message:user" \in Range(events)
SearchCalled == Range(events) \cap {"web_search", "web_search:raised"} # {}
C28_SearchCommandSearches ==
    (ContextAssembled /\ user_text.cmd = "/search" /\ user_text.rest) => SearchCalled

\* C29: in every turn that is not blocked and whose text starts with "!run"
\* followed by code, the sandbox has been called by the time context
\* assembly is over.
SandboxCalled == Range(events) \cap {"exec_code", "exec_code:raised"} # {}
C29_RunCommandExecutes ==
    (ContextAssembled /\ user_text.cmd = "!run" /\ user_text.rest) => SandboxCalled

\* C30: every search or code-execution section of the prompt's context has
\* passed through sanitize_tool_output: sanitizing it again changes nothing.
ExternalSections == {"search", "search:unsafe", "code", "code:unsafe"}
C30_ExternalTextSanitized ==
    \A i \in 1..Len(prompt) :
        prompt[i].role = "system" =>
            \A j \in 1..Len(prompt[i].content) :
                prompt[i].content[j] \in ExternalSections
                    => sanitize_tool_output(prompt[i].content[j]) = prompt[i].content[j]

\* C31: on the streaming path every fragment received is yielded at once and
\* in the order received (the yielded fragments only grow at their end and
\* are the collected ones), and when the stream ends the assistant turn put
\* in state.messages and in the session log has the yielded fragments, in
\* that order, as its content, and the usage added is the one of the stream.
Streamed == "stream_response" \in Range(events)
ContentsOfTurn(log, role) == {log[i].content : i \in OfTurn(log, role)}
C31_StreamState ==
    Streamed =>
        /\ aggregated = yielded
        /\ pc = "done" =>
              /\ Cardinality(OfTurn(messages, "assistant")) = 1
              /\ Cardinality(OfTurn(session_log, "assistant")) = 1
              /\ ContentsOfTurn(messages, "assistant") = {yielded}
              /\ ContentsOfTurn(session_log, "assistant") = {yielded}
        /\ pc # "done" =>
              /\ OfTurn(messages, "assistant") = {}
              /\ OfTurn(session_log, "assistant") = {}
C31_StreamStep ==
    (Streamed /\ Streamed') =>
        /\ IsPrefix(yielded, yielded')
        /\ Len(yielded') <= Len(yielded) + 1
        /\ Completes =>
              /\ yielded' = yielded
              /\ UsageDelta \in Usages
              /\ session_usage'.prompt_tokens = UsageDelta.prompt_tokens
              /\ session_usage'.completion_tokens = UsageDelta.completion_tokens
C31_StreamedReplyPersisted == []C31_StreamState /\ [][C31_StreamStep]_vars
C31_Witness ==
    /\ Streamed
    /\ pc = "done"
    /\ yielded = <<"x", "y">>
    /\ ContentsOfTurn(session_log, "assistant") = {<<"x", "y">>}
    /\ token_usage = TokenUsage_update(NoUsage, 1, 2)

\* C32: when the synchronous fallback call succeeds, the generator yields
\* the full reply text as one fragment when the text is not empty and
\* yields nothing when it is empty, yields nothing of the abandoned stream,
\* and finalizes the turn with the text and the usage of the synchronous
\* call.
SyncSucceeded == "complete_response" \in Range(events)
SyncFinalized ==
    pc = "done" =>
        /\ ContentsOfTurn(messages, "assistant") = {sync_result.text}
        /\ ContentsOfTurn(session_log, "assistant") = {sync_result.text}
        /\ Cardinality(OfTurn(session_log, "assistant")) = 1
C32_SyncState ==
    SyncSucceeded =>
        /\ pc \in {"sync_yielded", "done"}
        /\ aggregated = <<>>
        /\ yielded = (IF Len(sync_result.text) > 0 THEN <<sync_result.text>> ELSE <<>>)
        /\ SyncFinalized
C32_SyncStep ==
    (SyncSucceeded' /\ Completes) =>
        /\ yielded' = yielded
        /\ UsageDelta = sync_result'.usage
        /\ session_usage'.prompt_tokens = sync_result'.usage.prompt_tokens
        /\ session_usage'.completion_tokens = sync_result'.usage.completion_tokens
C32_SyncStateOneFragment ==
    SyncSucceeded =>
        /\ pc \in {"sync_yielded", "done"}
        /\ aggregated = <<>>
        /\ yielded = <<sync_result.text>>
        /\ SyncFinalized
MemoryCalls ==
    {"get_short_term", "search_long_term", "append_short_term:user",
     "append_short_term:assistant", "add_long_term"}
MemoryBlocks ==
    {i \in 1..Len(prompt) :
        prompt[i].role = "system"
        /\ Range(prompt[i].content) \cap {"short_term", "long_term"} # {}}
UsageCalls == {"token_usage.update", "usage_tracker.update", "update_usage"}
C33_MemoryOffState ==
    ~memory_enabled =>
        /\ Range(events) \cap MemoryCalls = {}
        /\ MemoryBlocks = {}
        /\ "append_message:user" \in Range(events)
              => Cardinality(OfTurn(session_log, "user")) = 1
        /\ pc = "done" =>
              /\ Cardinality(OfTurn(session_log, "assistant")) = 1
              /\ UsageCalls \subseteq Range(events)
C33_MemoryOffStep ==
    ~memory_enabled =>
        /\ UNCHANGED <<short_term, long_term>>
        /\ Completes =>
              /\ UsageDelta = TokenCount(2, 1)
              /\ ledger'.prompt_tokens = ledger.prompt_tokens + 2
              /\ ledger'.completion_tokens = ledger.completion_tokens + 1
C33_MemoryOffNoMemory == []C33_MemoryOffState /\ [][C33_MemoryOffStep]_vars
C33_Witness ==
    /\ fn = "memory"
    /\ ~memory_enabled
    /\ pc = "done"
    /\ Len(messages) = PromoteEvery
    /\ Len(short_term) = 1
    /\ Len(long_term) = 1
    /\ Len(session_log) = PromoteEvery
    /\ Len(prompt) > 1

(***************************************************************************)
(* app/moderation.py : the policy of the ModerationController and its file *)
(* moderation_policy.json.  res holds the controller: its in-memory        *)
(* policy, the file, the last call and whether it raised, and for each     *)
(* category and for the default the action of the last call that set it.   *)
(* An action is given as the string the caller passes.                     *)
(***************************************************************************)
MaxPolicyCalls == 3

\* app/config.py, ModerationAction.from_value: None stands for ValueError
ActionInputs == {"allow", "block", "flag", "monitor", " Block ", "deny"}
Normalised(value) == IF value = " Block " THEN "block" ELSE value
from_value(value) ==
    LET normalised == IF Normalised(value) = "monitor" THEN "flag" ELSE Normalised(value)
    IN IF normalised \in ModerationAction THEN normalised ELSE None

_coerce_action(action) == from_value(action)

\* the file: absent, not parseable, or a JSON object with the two keys
PolicyFile(exists, parses, default_action, categories) ==
    [exists |-> exists, parses |-> parses,
     default_action |-> default_action, categories |-> categories]
InitialFiles ==
    { PolicyFile(FALSE, FALSE, "flag", [c \in {"hate"} |-> "block"]),
      PolicyFile(TRUE, FALSE, "flag", [c \in {"hate"} |-> "block"]),
      PolicyFile(TRUE, TRUE, "allow", [c \in {"hate"} |-> "monitor"]),
      PolicyFile(TRUE, TRUE, "deny", [c \in {"hate"} |-> "block"]) }

\* _load_policy, lines 31-41: the validators of ModerationPolicy coerce the
\* values, and any exception gives the policy of the settings
_load_policy(file) ==
    IF /\ file.exists
       /\ file.parses
       /\ from_value(file.default_action) # None
       /\ \A c \in DOMAIN file.categories : from_value(file.categories[c]) # None
    THEN [default_action |-> from_value(file.default_action),
          categories |-> [c \in DOMAIN file.categories |-> from_value(file.categories[c])]]
    ELSE DefaultPolicy

\* _save_policy, lines 43-54: each action is written as its value
_save_policy(policy) ==
    PolicyFile(TRUE, TRUE, policy.default_action, policy.categories)

\* set_category_action, line 61, with the action coerced
set_category_action(policy, category, action) ==
    [policy EXCEPT !.categories =
        [c \in DOMAIN policy.categories \cup {category} |->
            IF c = category THEN action ELSE policy.categories[c]]]

\* set_default_action building the new policy without the categories argument
set_default_action_DefaultCategories(policy, action) ==
    [default_action |-> action, categories |-> DefaultPolicy.categories]

\* set_default_action, lines 65-68, with the action coerced
set_default_action(policy, action) ==
    [default_action |-> action, categories |-> policy.categories]

PolicyCategories == {"hate", "spam"}

InitPolicy ==
    /\ Constructed(None, TRUE, TRUE)
    /\ fn = "policy"
    /\ arg = None
    /\ \E file \in InitialFiles :
          res = [policy |-> _load_policy(file), file |-> file, op |-> "__init__",
                 raised |-> FALSE, calls |-> 0,
                 latest_default |-> None,
                 latest_categories |-> [c \in PolicyCategories |-> None]]

SetCategoryAction(category, action) ==
    /\ fn = "policy"
    /\ res.calls < MaxPolicyCalls
    /\ LET coerced == _coerce_action(action)
           policy == set_category_action(res.policy, category, coerced)
       IN res' = IF coerced = None
                 THEN [res EXCEPT !.op = "set_category_action", !.raised = TRUE,
                                  !.calls = @ + 1]
                 ELSE [res EXCEPT !.policy = policy, !.file = _save_policy(policy),
                                  !.op = "set_category_action", !.raised = FALSE,
                                  !.calls = @ + 1,
                                  !.latest_categories[category] = coerced]
    /\ UNCHANGED <<fn, arg, turnVars>>

SetDefaultAction(action) ==
    /\ fn = "policy"
    /\ res.calls < MaxPolicyCalls
    /\ LET coerced == _coerce_action(action)
           policy == set_default_action(res.policy, coerced)
       IN res' = IF coerced = None
                 THEN [res EXCEPT !.op = "set_default_action", !.raised = TRUE,
                                  !.calls = @ + 1]
                 ELSE [res EXCEPT !.policy = policy, !.file = _save_policy(policy),
                                  !.op = "set_default_action", !.raised = FALSE,
                                  !.calls = @ + 1,
                                  !.latest_default = coerced]
    /\ UNCHANGED <<fn, arg, turnVars>>

NextPolicy ==
    \/ \E category \in PolicyCategories, action \in ActionInputs :
          SetCategoryAction(category, action)
    \/ \E action \in ActionInputs : SetDefaultAction(action)

SpecPolicy == InitPolicy /\ [][NextPolicy]_vars

\* C34: after any sequence of set_category_action and set_default_action
\* calls the policy a fresh load of the file gives is the in-memory policy,
\* each category and the default have the action of the last call that set
\* them, and set_default_action leaves every category's action as it was.
PolicyKept == fn = "policy"
C34_PolicyState ==
    PolicyKept =>
        /\ _load_policy(res.file) = res.policy
        /\ res.calls > 0 /\ ~res.raised => res.file = _save_policy(res.policy)
        /\ \A c \in PolicyCategories :
              res.latest_categories[c] # None =>
                  /\ c \in DOMAIN res.policy.categories
                  /\ res.policy.categories[c] = res.latest_categories[c]
                  /\ PolicyAction(res.policy, c) = res.latest_categories[c]
        /\ res.latest_default # None => res.policy.default_action = res.latest_default
C34_PolicyStep ==
    /\ (PolicyKept /\ res'.op = "set_default_action")
          => res'.policy.categories = res.policy.categories
    /\ (PolicyKept /\ res'.raised) => (res'.policy = res.policy /\ res'.file = res.file)
MaxLoads == 4

ConfiguredModels == {"phi", "mistral", "openai"}
ModelIds == ConfiguredModels \cup {"unknown"}

InitModels ==
    /\ Constructed(None, TRUE, TRUE)
    /\ fn = "load_model"
    /\ arg = None
    /\ res = [models |-> {}, current |-> None, model_id |-> None,
              returned |-> FALSE, calls |-> 0]

\* load_model, lines 225-312; from_pretrained returns the weights or raises
LoadModel(model_id, force_reload, outcome) ==
    /\ fn = "load_model"
    /\ res.calls < MaxLoads
    /\ res' =
          IF ~force_reload /\ res.current # None /\ model_id \in res.models
          THEN [res EXCEPT !.model_id = model_id, !.returned = TRUE, !.calls = @ + 1]
          ELSE IF model_id \notin ConfiguredModels
          THEN [res EXCEPT !.model_id = model_id, !.returned = FALSE, !.calls = @ + 1]
          ELSE IF model_id = "openai"
          THEN [res EXCEPT !.models = @ \cup {model_id}, !.current = None,
                           !.model_id = model_id, !.returned = TRUE, !.calls = @ + 1]
          ELSE IF outcome = "loaded"
          THEN [res EXCEPT !.models = @ \cup {model_id}, !.current = model_id,
                           !.model_id = model_id, !.returned = TRUE, !.calls = @ + 1]
          ELSE [res EXCEPT !.model_id = model_id, !.returned = FALSE, !.calls = @ + 1]
    /\ UNCHANGED <<fn, arg, turnVars>>

NextModels ==
    \E model_id \in ModelIds, force_reload \in BOOLEAN, outcome \in {"loaded", "raise"} :
        LoadModel(model_id, force_reload, outcome)

SpecModels == InitModels /\ [][NextModels]_vars

\* C35: whenever load_model(model_id) has returned True for a local model,
\* the manager's current model and tokenizer are those of model_id, and
\* after load_model("openai") has returned True no local model is current.
C35_CurrentIsLoadedModel ==
    (fn = "load_model" /\ res.calls > 0 /\ res.returned) =>
        res.current = (IF res.model_id = "openai" THEN None ELSE res.model_id)

(***************************************************************************)
(* app/persona_registry.py : the catalogue lock.  _catalog_lock is a       *)
(* threading.Lock, which its holder cannot take a second time.  res holds  *)
(* the lock's holder (0 when it is free), whether _catalog_cache is set,   *)
(* and for each calling thread the function it called and its position.    *)
(* upsert_persona and remove_persona call _get_catalog inside their own    *)
(* `with _catalog_lock`; the statements after that call are never reached  *)
(* and have no step here.                                                  *)
(***************************************************************************)
MaxCallers == 2

Callers == 1..MaxCallers
CatalogCalls == {"upsert_persona", "remove_persona", "get_catalog", "refresh_persona_cache"}

InitCatalog ==
    /\ Constructed(None, TRUE, TRUE)
    /\ fn = "catalog"
    /\ arg = None
    /\ res = [lock |-> 0, cached |-> FALSE,
              call |-> [t \in Callers |-> None],
              pc |-> [t \in Callers |-> "idle"]]

CatalogUnchanged == UNCHANGED <<fn, arg, turnVars>>

\* a thread calls one of the functions; upsert_persona normalises the
\* definition first (line 342) and raises ValueError for an incomplete one
CatalogCall(t, call, valid) ==
    /\ fn = "catalog"
    /\ res.pc[t] \in {"idle", "returned", "raised"}
    /\ res' = [res EXCEPT !.call[t] = call,
                          !.pc[t] = IF call = "upsert_persona" /\ ~valid THEN "raised"
                                    ELSE IF call \in {"upsert_persona", "remove_persona"}
                                    THEN "with_lock"
                                    ELSE "get_catalog"]
    /\ CatalogUnchanged

\* lines 344 and 371: `with _catalog_lock` of upsert_persona / remove_persona,
\* followed by the call of _get_catalog at lines 345 and 372
MutatorAcquires(t) ==
    /\ fn = "catalog"
    /\ res.pc[t] = "with_lock"
    /\ res.lock = 0
    /\ res' = [res EXCEPT !.lock = t, !.pc[t] = "get_catalog"]
    /\ CatalogUnchanged

\* _get_catalog, lines 156-168: `with _catalog_lock`, the cache is loaded when
\* it has to be, the lock is released at the end of the block
GetCatalog(t) ==
    /\ fn = "catalog"
    /\ res.pc[t] = "get_catalog"
    /\ res.lock = 0
    /\ res' = [res EXCEPT !.cached = TRUE, !.pc[t] = "returned"]
    /\ CatalogUnchanged

NextCatalog ==
    \/ \E t \in Callers, call \in CatalogCalls, valid \in BOOLEAN : CatalogCall(t, call, valid)
    \/ \E t \in Callers : MutatorAcquires(t)
    \/ \E t \in Callers : GetCatalog(t)

SpecCatalog == InitCatalog /\ [][NextCatalog]_vars

\* C36: the catalogue lock is never waited on forever: no thread stands at
\* the `with _catalog_lock` of _get_catalog while it holds that lock itself,
\* and a thread that is inside upsert_persona or remove_persona with the
\* lock taken can still go on.
C36_LockNeverSelfAwaited ==
    fn = "catalog" =>
        \A t \in Callers :
            (res.call[t] \in {"upsert_persona", "remove_persona"} /\ res.pc[t] = "get_catalog")
                => res.lock # t

(***************************************************************************)
(* core/enhanced_chat_engine.py : _resolve_model_selection, with           *)
(* app/persona_registry.py : resolve_allowed_model_ids.  Model ids are     *)
(* strings; SortedIds lists the ids of this model in the order sorted()    *)
(* gives them (an upper-case letter sorts before "auto").                  *)
(***************************************************************************)
SortedIds == <<"Zephyr", "auto", "ghost", "mistral", "phi">>
sorted(ids) == SelectSeq(SortedIds, LAMBDA id : id \in ids)

\* list_available_models, core/pytorch_manager.py lines 473-497: the entries
\* carry id, name, description, max_length, quantization and loaded but no
\* "categories", so model.get("categories", []) is empty for each of them
models_catalog == [id \in {"Zephyr", "mistral", "phi"} |-> {}]

\* resolve_allowed_model_ids, lines 288-305, with include_auto = True
resolve_allowed_model_ids(persona, available_models) ==
    LET allowed == IF persona.allowed_model_ids # {}
                   THEN persona.allowed_model_ids
                   ELSE {id \in DOMAIN available_models :
                            persona.allowed_model_categories \cap available_models[id] # {}}
        ordered == sorted(allowed)
    IN IF "auto" \notin allowed THEN <<"auto">> \o ordered ELSE ordered

\* the first entry of allowed_models that is not "auto", or None
FirstCandidate(allowed_models) ==
    LET hits == {i \in 1..Len(allowed_models) : allowed_models[i] # "auto"}
    IN IF hits = {} THEN None
       ELSE allowed_models[CHOOSE i \in hits : \A j \in hits : i <= j]

\* _resolve_model_selection returning the requested model without looking
\* it up in allowed_models
_resolve_model_selection_TrustsRequest(persona_meta, requested_model, config_default) ==
    LET allowed_models == resolve_allowed_model_ids(persona_meta, models_catalog)
        selected == IF requested_model \notin {None, ""}
                    THEN requested_model ELSE persona_meta.default_model
    IN IF selected \notin {None, "", "auto"}
       THEN [selected |-> selected, allowed |-> allowed_models]
       ELSE IF FirstCandidate(allowed_models) # None
       THEN [selected |-> FirstCandidate(allowed_models), allowed |-> allowed_models]
       ELSE [selected |-> config_default, allowed |-> allowed_models]

\* _resolve_model_selection, lines 84-109; config_default is
\* pytorch_manager.config.get("default_model")
_resolve_model_selection(persona_meta, requested_model, config_default) ==
    LET allowed_models == resolve_allowed_model_ids(persona_meta, models_catalog)
        selected == IF requested_model \notin {None, ""}
                    THEN requested_model ELSE persona_meta.default_model
    IN IF selected \notin {None, "", "auto"} /\ selected \in Range(allowed_models)
       THEN [selected |-> selected, allowed |-> allowed_models]
       ELSE IF FirstCandidate(allowed_models) # None
       THEN [selected |-> FirstCandidate(allowed_models), allowed |-> allowed_models]
       ELSE [selected |-> config_default, allowed |-> allowed_models]

PersonaMetas ==
    { [default_model |-> d, allowed_model_ids |-> ids, allowed_model_categories |-> cats] :
        d \in {"auto", "phi", "Zephyr"},
        ids \in {{}, {"phi"}, {"auto", "mistral"}, {"ghost", "Zephyr"}, {"auto"}},
        cats \in {{}, {"general"}, {"nsfw"}, {"code", "voice"}} }

InitSelection ==
    /\ Constructed(None, TRUE, TRUE)
    /\ fn = "_resolve_model_selection"
    /\ arg \in { [persona_meta |-> p, requested_model |-> r, config_default |-> c] :
                   p \in PersonaMetas,
                   r \in {None, "", "auto", "phi", "mistral", "Zephyr"},
                   c \in {None, "phi"} }
    /\ res = None

ApplySelection ==
    /\ fn = "_resolve_model_selection"
    /\ res' = _resolve_model_selection(arg.persona_meta, arg.requested_model,
                                       arg.config_default)
    /\ fn' = "_resolve_model_selection:done"
    /\ UNCHANGED <<arg, turnVars>>

SpecSelection == InitSelection /\ [][ApplySelection]_vars

\* C37: the model _resolve_model_selection selects is one of the persona's
\* allowed model ids (its allowed_model_ids, or without them the models of
\* its allowed categories, and "auto"), or, only when no id other than
\* "auto" is allowed, the manager's configured default model; a requested
\* or persona-default model outside the allowed ids is never selected when
\* some other model is allowed.
SelectionDone == fn = "_resolve_model_selection:done"
AllowedIds ==
    {"auto"} \cup
    (IF arg.persona_meta.allowed_model_ids # {}
     THEN arg.persona_meta.allowed_model_ids
     ELSE {id \in {"Zephyr", "mistral", "phi"} :
              arg.persona_meta.allowed_model_categories \cap models_catalog[id] # {}})
Wanted ==
    IF arg.requested_model \notin {None, ""}
    THEN arg.requested_model ELSE arg.persona_meta.default_model
C37_SelectedModelAllowed ==
    SelectionDone =>
        /\ Range(res.allowed) = AllowedIds
        /\ \/ res.selected \in AllowedIds
           \/ (AllowedIds = {"auto"} /\ res.selected = arg.config_default)
        /\ AllowedIds # {"auto"} => res.selected \in AllowedIds \ {"auto"}
        /\ (Wanted \in AllowedIds \ {"auto"}) => res.selected = Wanted
C37_Witness ==
    /\ SelectionDone
    /\ arg.requested_model = "Zephyr"
    /\ arg.persona_meta.default_model = "phi"
    /\ AllowedIds = {"auto", "mistral"}
    /\ res.selected = "mistral"
C37_WitnessDefault ==
    /\ SelectionDone
    /\ arg.requested_model = "mistral"
    /\ AllowedIds = {"auto"}
    /\ res.selected = "phi"

\* ---------------------------------------------------------------------------
\* tools/internet_access.py: the UsageTracker of the internet-access manager
\* and the quota-tracked searches (search_google, search_bing).  The manager
\* is one process-wide object (line 638) and comprehensive_search runs on
\* worker threads (api/routes/enhanced.py:369, 393), so several searches can
\* be between can_use_service and record_usage at the same time.  The tracker
\* takes no lock.  Time is counted in days.
\* ---------------------------------------------------------------------------
MaxSearchers == 2
MaxNow == 3
QuotaLimit == 2
\* the length of a month, in days of the model's clock
MonthDays == 2

Searchers == 1..MaxSearchers
QuotaServices == {"google_search", "bing_search"}

\* _initialize_default_quotas, lines 69-79 (limits 100 and 1000 in the source)
limit_type == [s \in QuotaServices |-> IF s = "google_search" THEN "daily" ELSE "monthly"]
limit == [s \in QuotaServices |-> IF s = "google_search" THEN QuotaLimit ELSE QuotaLimit + 1]

InitQuotas ==
    /\ Constructed(None, TRUE, TRUE)
    /\ fn = "internet"
    /\ arg = None
    /\ res = [now |-> 0,
              used |-> [s \in QuotaServices |-> 0],
              reset_time |-> [s \in QuotaServices |->
                                 IF limit_type[s] = "daily" THEN 1 ELSE MonthDays + 1],
              pc |-> [t \in Searchers |-> "idle"],
              service |-> [t \in Searchers |-> None],
              loaded |-> [t \in Searchers |-> 0]]

QuotasUnchanged == UNCHANGED <<fn, arg, turnVars>>

\* the wall clock read by datetime.now()
Tick ==
    /\ fn = "internet"
    /\ res.now < MaxNow
    /\ res' = [res EXCEPT !.now = res.now + 1]
    /\ QuotasUnchanged

\* lines 106-110: the next midnight, or the first day of the next month
NextResetTime(s, now) ==
    IF limit_type[s] = "daily" THEN now + 1
    ELSE ((now \div MonthDays) + 1) * MonthDays

\* check_and_reset_quotas, lines 99-113
ResetUsed(now, used, reset_time) ==
    [s \in QuotaServices |-> IF now >= reset_time[s] THEN 0 ELSE used[s]]

ResetTimes(now, reset_time) ==
    [s \in QuotaServices |-> IF now >= reset_time[s] THEN NextResetTime(s, now)
                             ELSE reset_time[s]]

\* can_use_service, lines 115-123, as called by search_google (line 240) and
\* search_bing (line 281): over quota the search raises ValueError
CanUseService(t, s) ==
    /\ fn = "internet"
    /\ res.pc[t] \in {"idle", "returned", "raised"}
    /\ LET used == ResetUsed(res.now, res.used, res.reset_time)
       IN  res' = [res EXCEPT !.used = used,
                              !.reset_time = ResetTimes(res.now, res.reset_time),
                              !.service[t] = s,
                              !.pc[t] = IF used[s] < limit[s] THEN "calling"
                                        ELSE "quota_exceeded"]
    /\ QuotasUnchanged

\* the searcher that was refused has raised and may search again
QuotaExceeded(t) ==
    /\ fn = "internet"
    /\ res.pc[t] = "quota_exceeded"
    /\ res' = [res EXCEPT !.pc[t] = "raised"]
    /\ QuotasUnchanged

\* lines 243-267: the request to the service; a failed request is re-raised
\* at line 270 without a record_usage
ServiceResponds(t, ok) ==
    /\ fn = "internet"
    /\ res.pc[t] = "calling"
    /\ res' = [res EXCEPT !.pc[t] = IF ok THEN "record_usage" ELSE "raised"]
    /\ QuotasUnchanged

\* record_usage, line 128: `used += 1` reads the count ...
RecordUsageLoad(t) ==
    /\ fn = "internet"
    /\ res.pc[t] = "record_usage"
    /\ res' = [res EXCEPT !.loaded[t] = res.used[res.service[t]], !.pc[t] = "store"]
    /\ QuotasUnchanged

\* ... and stores the count plus one
RecordUsageStore(t) ==
    /\ fn = "internet"
    /\ res.pc[t] = "store"
    /\ res' = [res EXCEPT !.used[res.service[t]] = res.loaded[t] + 1,
                          !.loaded[t] = 0,
                          !.pc[t] = "returned"]
    /\ QuotasUnchanged

NextQuotas ==
    \/ Tick
    \/ \E t \in Searchers, s \in QuotaServices : CanUseService(t, s)
    \/ \E t \in Searchers : QuotaExceeded(t)
    \/ \E t \in Searchers, ok \in BOOLEAN : ServiceResponds(t, ok)
    \/ \E t \in Searchers : RecordUsageLoad(t)
    \/ \E t \in Searchers : RecordUsageStore(t)

SpecQuotas == InitQuotas /\ [][NextQuotas]_vars

\* a step in which some searcher's can_use_service ran
QuotaChecked ==
    \E t \in Searchers :
        /\ res.pc[t] \in {"idle", "returned", "raised"}
        /\ res'.pc[t] \in {"calling", "quota_exceeded"}

C38_UsedWithinLimit ==
    fn = "internet" => \A s \in QuotaServices : res.used[s] <= limit[s]

C38_ResetStep ==
    (fn = "internet" /\ QuotaChecked) =>
        \A s \in QuotaServices :
            res.now >= res.reset_time[s] =>
                /\ res'.used[s] = 0
                /\ res'.reset_time[s] > res'.now

\* C38: for every quota-tracked search service the used count never exceeds
\* the limit, whatever the order in which the searchers' steps interleave,
\* and a check made once the reset time has passed sets used to 0 and moves
\* the reset time into the future.
C38_QuotaNeverExceeded == []C38_UsedWithinLimit /\ [][C38_ResetStep]_vars

\* the second half of C38 on its own: the reset at a check
C38_ResetAtCheck == [][C38_ResetStep]_vars

\* a reset has happened: the daily window was left with searches recorded
C38_ResetWitness ==
    /\ fn = "internet"
    /\ res.now >= 1
    /\ res.reset_time["google_search"] > res.now
    /\ res.reset_time["google_search"] > 1

====
